---- MODULE Spec2Model ----
(***************************************************************************)
(* A model of the chunked-array storage benchmarking scripts:              *)
(*   - TiffDataChunkIterator          (exp12_write_ophys_tiff_to_nwb.py)   *)
(*   - the config-driven writers      (exp12_write_ophys.py and            *)
(*                                     exp12_write_ophys_tiff_to_nwb.py)   *)
(*   - the read benchmark             (exp12_read_ophys.py)                *)
(* Each part has its own variables and its own specification; a            *)
(* specification leaves the variables of the other parts at their idle     *)
(* values.                                                                 *)
(***************************************************************************)
EXTENDS Integers, Sequences, FiniteSets, TLC

VARIABLES
    \* ---- TiffDataChunkIterator
    tiff_files,        \* the sorted frame files, each named by its source index
    buffer_frames,     \* frames per yielded buffer
    current_frame,     \* self._current_frame
    chunks,            \* the DataChunks yielded so far, in order
    exhausted          \* StopIteration has been raised

VARIABLES
    \* ---- the config-driven writers (main and process_config)
    writer,            \* "h5": exp12_write_ophys.py, "tiff": exp12_write_ophys_tiff_to_nwb.py
    config_file,       \* the configuration table: a sequence of lines
    config_number,     \* int(sys.argv[..])
    wr_pc,             \* the writer's position
    lineno,            \* the enumerate() index of main's loop
    params,            \* the list handed to process_config
    chunk_shape,       \* chunksizes / chunk_shape
    compr,             \* compression algorithm name or filter id
    comp_op,           \* compression options
    input_opened,      \* the input NWB file has been opened for reading
    data_io_kwargs,    \* the keyword arguments given to H5DataIO
    output_file,       \* "absent", "partial" or "complete"
    exported,          \* export_io.export(...) returned
    stats,             \* the stats string
    stats_file,        \* the stats file has been written
    nwbfile,           \* the NWBFile read from the input: its acquisition and the rest
    orig_2pseries,     \* the series the input file holds under series_name
    new_2pseries,      \* the series built to replace it
    exported_nwb,      \* what the output file holds after the export
    wr_err             \* the exception that ended the run, if any

VARIABLES
    \* ---- the read benchmark (exp12_read_ophys.py): one call of a use case
    rd_fn,             \* "seq" (benchmark_sequential_batches), "o3" or "o4"
    batch_size,        \* batch_size of the call
    n_repeats,         \* n_repeats of the call
    data_shape,        \* shape of the stored series: <<frames, dim_y, dim_x>>
    ns_per_frame,      \* what reading one frame costs on the clock
    rd_pc,             \* the benchmark's position
    unit,              \* repeat / sample / loc: the index of the outer loop
    i,                 \* the index of the batch loop
    n_frames,          \* n_frames as read from the file
    n_batches,         \* math.ceil(n_frames / batch_size)
    batch_read_times,  \* per-batch times of the unit in progress
    batch_sizes,       \* per-batch extents of the unit in progress
    all_batch_times,   \* one row of batch times per finished unit
    unit_total_times,  \* repeat_total_times / location_total_times
    read_times,        \* o3: the per-sample times
    frame_indices,     \* o3: the sampled frame indices
    xy_starts,         \* o4: <<x_starts, y_starts>>
    now,               \* the value time.perf_counter_ns() returns
    start_time,        \* start_time of the read in progress
    timing,            \* between start_time = ... and end_time = ...
    io,                \* the NWBHDF5IO handle of the "with" block
    drops,             \* how many times drop_cache has run
    last_op,           \* the latest operation on the input file
    page_cache,        \* "dropped" after drop_cache, "warm" after any read
    read_log,          \* history: one entry per data read
    drop_log,          \* history: one entry per drop_cache call
    result,            \* the dict the use case returns
    rd_err             \* the exception that ended the call, if any

VARIABLES
    \* ---- main() of exp12_read_ophys.py: one run of the benchmark program
    mn_pc,             \* main's position
    mn_args,           \* sys.argv: [config_number, output_label]
    fs,                \* the .nwb files in the directory the run reads from
    output_dir_made,   \* output_dir.mkdir(...) has run
    h5out,             \* the output HDF5 file: [exists, open, groups]
    stdout,            \* what the run has printed, in order
    exit_status,       \* -1 while running, then the process's exit status
    use_case,          \* index into USE_CASES of the use case at hand
    runs               \* what each use case that returned has read: a log

VARIABLES
    \* ---- the frame files: exp12_nwb_to_tiff.py, then the tiff writers' data path
    fp_pc,             \* the position of the pipeline
    fp_writer,         \* "tiff": the config-driven writer, "unchunked": the unchunked one
    movie,             \* the series of the input file: [idx, dims]
    tiff_dir,          \* the files of the tiff directory: a set of [name, frame]
    frame_idx,         \* the loop index of the export and of the fill
    fp_tiff_files,     \* tiff_files: the sorted list of files
    fp_frame_dims,     \* <<frame_width, frame_height>> taken from the first file
    fp_buffer_frames,  \* buffer_frames of the iterator
    fp_current_frame,  \* the iterator's _current_frame
    dataset,           \* the data of the output file: one slot per frame
    fp_stats_file,     \* the stats file has been written
    fp_err             \* the exception or exit that ended the run, if any

iterVars == <<tiff_files, buffer_frames, current_frame, chunks, exhausted>>

rdCall == <<rd_fn, batch_size, n_repeats, data_shape, ns_per_frame>>
rdLoop == <<unit, i, n_frames, n_batches>>
rdAcc == <<batch_read_times, batch_sizes, all_batch_times, unit_total_times,
           read_times>>
rdDraw == <<frame_indices, xy_starts>>
rdClock == <<now, start_time, timing>>
rdFile == <<io, drops, last_op, page_cache>>
rdLogs == <<read_log, drop_log>>
rdEnd == <<result, rd_err>>
rdVars == <<rdCall, rd_pc, rdLoop, rdAcc, rdDraw, rdClock, rdFile, rdLogs, rdEnd>>

wrSeries == <<nwbfile, orig_2pseries, new_2pseries, exported_nwb>>

wrVars == <<writer, config_file, config_number, wr_pc, lineno, params, chunk_shape,
            compr, comp_op, input_opened, data_io_kwargs, output_file, exported,
            stats, stats_file, wr_err, wrSeries>>

mnVars == <<mn_pc, mn_args, fs, output_dir_made, h5out, stdout, exit_status, use_case,
            runs>>

VARIABLES
    \* ---- the integrity scan: exp12_check_nwb_files.py
    ck_pc,             \* the position of main
    directory,         \* the files of the directory: a set of [name, opens, locked]
    nwb_files,         \* the sorted list of the .nwb files' names
    ck_pos,            \* how many files of nwb_files the loop has taken
    opened,            \* the names handed to pynwb.NWBHDF5IO, in order
    failed_files,      \* the list of <<name, error_msg>>
    deleted_files,     \* the list of deleted names
    ck_out,            \* the lines printed
    ck_err             \* the exception or exit that ended the run, if any

fpVars == <<fp_pc, fp_writer, movie, tiff_dir, frame_idx, fp_tiff_files, fp_frame_dims,
            fp_buffer_frames, fp_current_frame, dataset, fp_stats_file, fp_err>>

ckVars == <<ck_pc, directory, nwb_files, ck_pos, opened, failed_files, deleted_files,
            ck_out, ck_err>>

vars == <<iterVars, wrVars, rdVars, mnVars, fpVars, ckVars>>

\* what the steps of one part leave alone: the variables of the other parts
notIter == <<wrVars, rdVars, mnVars, fpVars, ckVars>>
notWr == <<iterVars, rdVars, mnVars, fpVars, ckVars>>
notRd == <<iterVars, wrVars, mnVars, fpVars, ckVars>>
notMn == <<iterVars, wrVars, fpVars, ckVars>>
notFp == <<iterVars, wrVars, rdVars, mnVars, ckVars>>
notCk == <<iterVars, wrVars, rdVars, mnVars, fpVars>>

\* ------------------------------------------------------------------ bounds
MaxFrames == 8
MaxBuffer == 4
MaxLines == 2
MaxReadFrames == 4
MaxBatch == 3
MaxRepeats == 2
MaxFpFrames == 3
MaxCkFiles == 3

\* ----------------------------------------------------------------- helpers
Min(a, b) == IF a <= b THEN a ELSE b

CeilDiv(a, b) == (a + b - 1) \div b

RECURSIVE SumSeq(_)
SumSeq(s) == IF s = <<>> THEN 0 ELSE Head(s) + SumSeq(Tail(s))

\* range(a, b) as a sequence
Range(a, b) == [k \in 1..(IF b > a THEN b - a ELSE 0) |-> a + k - 1]

\* ------------------------------------------------------- text as characters
\* A Python str is a sequence of one-character strings.
Whitespace == {" ", "\t", "\n"}

UpperChars == <<"A","B","C","D","E","F","G","H","I","J","K","L","M",
                "N","O","P","Q","R","S","T","U","V","W","X","Y","Z">>
LowerChars == <<"a","b","c","d","e","f","g","h","i","j","k","l","m",
                "n","o","p","q","r","s","t","u","v","w","x","y","z">>
DigitChars == <<"0","1","2","3","4","5","6","7","8","9">>

\* str.lower()
LowerChar(c) ==
    IF \E p \in 1..26 : UpperChars[p] = c
    THEN LowerChars[CHOOSE p \in 1..26 : UpperChars[p] = c]
    ELSE c
Lower(s) == [p \in 1..Len(s) |-> LowerChar(s[p])]

\* str.strip()
RECURSIVE LStrip(_)
LStrip(s) == IF s # <<>> /\ Head(s) \in Whitespace THEN LStrip(Tail(s)) ELSE s
RECURSIVE RStrip(_)
RStrip(s) ==
    IF s # <<>> /\ s[Len(s)] \in Whitespace
    THEN RStrip(SubSeq(s, 1, Len(s) - 1)) ELSE s
Strip(s) == RStrip(LStrip(s))

\* str.split(): runs of whitespace separate, no empty piece is produced
RECURSIVE SplitWs(_, _, _, _)
SplitWs(s, p, cur, acc) ==
    IF p > Len(s) THEN (IF cur = <<>> THEN acc ELSE Append(acc, cur))
    ELSE IF s[p] \in Whitespace
         THEN SplitWs(s, p + 1, <<>>, IF cur = <<>> THEN acc ELSE Append(acc, cur))
         ELSE SplitWs(s, p + 1, Append(cur, s[p]), acc)
Split(s) == SplitWs(s, 1, <<>>, <<>>)

\* str.split(","): every comma separates, empty pieces are kept
RECURSIVE SplitSep(_, _, _, _, _)
SplitSep(s, sep, p, cur, acc) ==
    IF p > Len(s) THEN Append(acc, cur)
    ELSE IF s[p] = sep
         THEN SplitSep(s, sep, p + 1, <<>>, Append(acc, cur))
         ELSE SplitSep(s, sep, p + 1, Append(cur, s[p]), acc)
SplitComma(s) == SplitSep(s, ",", 1, <<>>, <<>>)

\* int(s): an optional sign and then one or more decimal digits; anything else
\* raises ValueError (IsInt is FALSE).
IsDigit(c) == \E d \in 1..10 : DigitChars[d] = c
DigitVal(c) == (CHOOSE d \in 1..10 : DigitChars[d] = c) - 1
Unsigned(s) == IF s # <<>> /\ s[1] \in {"-", "+"} THEN Tail(s) ELSE s
IsInt(s) == /\ Unsigned(s) # <<>>
            /\ \A p \in 1..Len(Unsigned(s)) : IsDigit(Unsigned(s)[p])
RECURSIVE DigitsVal(_, _)
DigitsVal(s, acc) ==
    IF s = <<>> THEN acc ELSE DigitsVal(Tail(s), 10 * acc + DigitVal(Head(s)))
IntOf(s) == IF s # <<>> /\ s[1] = "-" THEN 0 - DigitsVal(Unsigned(s), 0)
            ELSE DigitsVal(Unsigned(s), 0)

\* " ".join(tokens) + "\n": how a line of the configuration table is laid out
RECURSIVE JoinSp(_)
JoinSp(toks) ==
    IF toks = <<>> THEN <<>>
    ELSE IF Len(toks) = 1 THEN toks[1]
    ELSE toks[1] \o <<" ">> \o JoinSp(Tail(toks))
LineOf(toks) == JoinSp(toks) \o <<"\n">>

\* =========================================================================
\* TiffDataChunkIterator
\* =========================================================================

\* end_frame clamped to the last index instead of the file count
EndFrameDropsLast(start_frame, B, n) == Min(start_frame + B, n - 1)

\* end_frame = min(start_frame + self.buffer_frames, len(self.tiff_files))
EndFrame(start_frame, B, n) == Min(start_frame + B, n)

\* One DataChunk: data holds one (transposed) frame per source index read,
\* selection is np.s_[start_frame:end_frame, :, :].
DataChunk(start_frame, end_frame) ==
    [data      |-> [k \in 1..Len(Range(start_frame, end_frame)) |->
                        tiff_files[Range(start_frame, end_frame)[k] + 1]],
     selection |-> [start |-> start_frame, stop |-> end_frame]]

IterInit ==
    /\ \E n \in 0..MaxFrames : tiff_files = [k \in 1..n |-> k - 1]
    /\ buffer_frames \in 1..MaxBuffer
    /\ current_frame = 0
    /\ chunks = <<>>
    /\ exhausted = FALSE

IterIdle ==
    /\ tiff_files = <<>>
    /\ buffer_frames = 1
    /\ current_frame = 0
    /\ chunks = <<>>
    /\ exhausted = FALSE

\* __next__ when frames remain: read [start_frame, end_frame), advance.
IterNextChunk ==
    /\ ~exhausted
    /\ current_frame < Len(tiff_files)
    /\ LET start_frame == current_frame
           end_frame   == EndFrame(start_frame, buffer_frames, Len(tiff_files))
       IN /\ chunks' = Append(chunks, DataChunk(start_frame, end_frame))
          /\ current_frame' = end_frame
    /\ UNCHANGED <<tiff_files, buffer_frames, exhausted>>
    /\ UNCHANGED notIter

\* __next__ when no frame remains: raise StopIteration.
IterStop ==
    /\ ~exhausted
    /\ current_frame >= Len(tiff_files)
    /\ exhausted' = TRUE
    /\ UNCHANGED <<tiff_files, buffer_frames, current_frame, chunks>>
    /\ UNCHANGED notIter

IterNext == IterNextChunk \/ IterStop

\* =========================================================================
\* The config-driven writers: main() and process_config()
\* =========================================================================

\* ---- Python values
PyUnset == [t |-> "unset", v |-> <<>>]
PyNone == [t |-> "None", v |-> <<>>]
PyTrue == [t |-> "True", v |-> <<>>]
PyInt(n) == [t |-> "int", v |-> <<n>>]
PyTuple(q) == [t |-> "tuple", v |-> q]
\* compr is a str (the codec name) or an int (the filter id)
ComprUnset == [t |-> "unset", s |-> <<>>, n |-> 0]
ComprStr(tok) == [t |-> "str", s |-> tok, n |-> 0]
ComprInt(k) == [t |-> "int", s |-> <<>>, n |-> k]
\* a key that the kwargs dict does not hold
Absent == [t |-> "absent", v |-> <<>>]
ComprAbsent == [t |-> "absent", s |-> <<>>, n |-> 0]
KwargsUnset == [built |-> FALSE, chunks |-> PyUnset, compression |-> ComprUnset,
                allow_plugin_filters |-> FALSE, compression_opts |-> PyUnset]

\* ---- exceptions: the class, the message, the numbers the message cites, and
\* the step of the run that raised
NoError == [kind |-> "none", msg |-> "", num |-> <<>>, at |-> ""]
Error(kind, msg, num, at) == [kind |-> kind, msg |-> msg, num |-> num, at |-> at]

Ok(val) == [ok |-> TRUE, val |-> val]
Raises == [ok |-> FALSE, val |-> PyUnset]

\* ---- the words the code compares with
T_none == <<"n","o","n","e">>
T_true == <<"t","r","u","e">>
T_na == <<"n","a">>
T_NA == <<"N","A">>
T_gzip == <<"g","z","i","p">>
T_lz4 == <<"l","z","4">>
T_zstd == <<"z","s","t","d">>
T_zfp == <<"z","f","p">>
T_blosc_zstd == <<"b","l","o","s","c","-","z","s","t","d">>
T_blosc_lz4hc == <<"b","l","o","s","c","-","l","z","4","h","c">>
T_blosc_blosclz == <<"b","l","o","s","c","-","b","l","o","s","c","l","z">>
T_blosc_lz4 == <<"b","l","o","s","c","-","l","z","4">>

\* tuple(map(int, params[0].split(","))): ValueError when a piece is no integer
IntTuple(p0) ==
    LET parts == SplitComma(p0)
    IN IF \A p \in 1..Len(parts) : IsInt(parts[p])
       THEN Ok(PyTuple([p \in 1..Len(parts) |-> IntOf(parts[p])]))
       ELSE Raises

\* the chunk sizes of exp12_write_ophys.py, comparing params[0] as written
ChunkSizesH5CaseSensitive(p0) ==
    IF p0 = T_none THEN Ok(PyNone)
    ELSE IF p0 = T_true THEN Ok(PyTrue)
    ELSE IntTuple(p0)

\* "Set chunk sizes" of exp12_write_ophys.py
ChunkSizesH5(p0) ==
    IF Lower(p0) = T_none THEN Ok(PyNone)
    ELSE IF Lower(p0) = T_true THEN Ok(PyTrue)
    ELSE IntTuple(p0)

\* "Set chunk sizes" of exp12_write_ophys_tiff_to_nwb.py
ChunkShapeTiff(p0) ==
    IF Lower(p0) = T_true THEN Ok(PyTrue)
    ELSE IntTuple(p0)

\* the codec identifier taken from the name whatever the id field holds
ComprNameOnly(p1, p2) == [ok |-> TRUE, val |-> ComprStr(p1)]

\* "Set compression algo or filter id" (the same in both writers)
Compr(p1, p2) ==
    IF Lower(p2) = T_na THEN [ok |-> TRUE, val |-> ComprStr(p1)]
    ELSE IF IsInt(p2) THEN [ok |-> TRUE, val |-> ComprInt(IntOf(p2))]
    ELSE [ok |-> FALSE, val |-> ComprUnset]

BloscNames == {T_blosc_zstd, T_blosc_lz4hc, T_blosc_blosclz, T_blosc_lz4}

\* the compression options with the two parameter fields of the blosc branch
\* taken in the other order
CompOpBloscSwapped(p1, p3, p4) ==
    IF p1 = T_gzip THEN (IF IsInt(p4) THEN Ok(PyInt(IntOf(p4))) ELSE Raises)
    ELSE IF p1 \in {T_lz4, T_zstd}
         THEN (IF IsInt(p4) THEN Ok(PyTuple(<<IntOf(p4)>>)) ELSE Raises)
    ELSE IF p1 = T_zfp
         THEN (IF IsInt(p3) THEN Ok(PyTuple(<<IntOf(p3), 0, 0, 0, 0, 0>>)) ELSE Raises)
    ELSE IF p1 \in BloscNames
         THEN (IF IsInt(p4) /\ IsInt(p3)
               THEN Ok(PyTuple(<<0, 0, 0, 0, IntOf(p3), 0, IntOf(p4)>>)) ELSE Raises)
    ELSE Ok(PyNone)

\* "Set compression level" (the same in both writers)
CompOp(p1, p3, p4) ==
    IF p1 = T_gzip THEN (IF IsInt(p4) THEN Ok(PyInt(IntOf(p4))) ELSE Raises)
    ELSE IF p1 \in {T_lz4, T_zstd}
         THEN (IF IsInt(p4) THEN Ok(PyTuple(<<IntOf(p4)>>)) ELSE Raises)
    ELSE IF p1 = T_zfp
         THEN (IF IsInt(p3) THEN Ok(PyTuple(<<IntOf(p3), 0, 0, 0, 0, 0>>)) ELSE Raises)
    ELSE IF p1 \in BloscNames
         THEN (IF IsInt(p4) /\ IsInt(p3)
               THEN Ok(PyTuple(<<0, 0, 0, 0, IntOf(p4), 0, IntOf(p3)>>)) ELSE Raises)
    ELSE Ok(PyNone)

\* "Build H5DataIO parameters based on compression algorithm"
DataIoKwargs(chunks_, compr_, comp_op_, p1) ==
    [built |-> TRUE,
     chunks |-> chunks_,
     compression |-> IF p1 # T_NA THEN compr_ ELSE ComprAbsent,
     allow_plugin_filters |-> (p1 # T_NA),
     compression_opts |-> IF p1 # T_NA /\ comp_op_ # PyNone THEN comp_op_ ELSE Absent]

\* assert configno == lineno, without the comparison
IndexMatchesAlways(configno, n) == TRUE

\* assert configno == lineno
IndexMatches(configno, n) == configno = n

\* "if not stats", never taken
StatsEmptyNever(st) == FALSE

\* "if not stats": the empty string is falsy
StatsEmpty(st) == st.text = <<>>

EmptyStats == [text |-> <<>>, config |-> <<>>]

\* ---- the configuration tables the runs are given
Tok(n) == <<DigitChars[n + 1]>>          \* str(n) for one digit
T_auto == <<"a","u","t","o">>
T_True == <<"T","r","u","e">>
T_64_128_128 == <<"6","4",",","1","2","8",",","1","2","8">>
T_0_8 == <<"0",",","8">>
T_blosc_zlib == <<"b","l","o","s","c","-","z","l","i","b">>
T_lzf == <<"l","z","f">>
T_32004 == <<"3","2","0","0","4">>
T_3x == <<"3","x">>

ChunkToks == {T_none, T_true, T_True, T_auto, T_64_128_128, T_0_8}
NameToks == {T_gzip, T_lz4, T_zstd, T_zfp, T_blosc_zstd, T_blosc_lz4hc,
             T_blosc_zlib, T_lzf, T_NA}
IdToks == {T_NA, T_na, T_32004, T_3x}
ParamPairs == {<<Tok(0), Tok(4)>>, <<Tok(5), Tok(3)>>}

BareRows == {<<c, nm, id, pp[1], pp[2]>> :
                c \in ChunkToks, nm \in NameToks, id \in IdToks, pp \in ParamPairs}
IndexedRows == {<<Tok(k)>> \o r : k \in 0..(MaxLines - 1), r \in BareRows}
SampleRow == <<T_64_128_128, T_gzip, T_NA, Tok(0), Tok(4)>>
\* rows of the wrong length, with and without a leading index
OddRows == {SubSeq(SampleRow, 1, n) : n \in 0..4}
           \cup {SampleRow \o <<Tok(9)>>}
           \cup {<<Tok(k)>> \o SubSeq(SampleRow, 1, n) : k \in 0..(MaxLines - 1), n \in 0..4}
           \cup {<<Tok(k)>> \o SampleRow \o <<Tok(9)>> : k \in 0..(MaxLines - 1)}
Lines == {LineOf(r) : r \in BareRows \cup IndexedRows \cup OddRows}
\* a line main never looks at
Filler == <<"#", "\n">>

\* ---- the series of the input file and the one built from it
\* the constructor arguments process_config passes, besides timestamps
PassedFields == {"name", "description", "data", "starting_time", "rate", "unit",
                 "conversion", "resolution", "comments", "dimension", "imaging_plane"}
\* the fields of a series that the model follows
SeriesFields == PassedFields \cup {"timestamps", "offset"}
\* what the constructor gives a field that is not passed to it
FieldDefault(f) == IF f = "offset" THEN "0.0" ELSE "None"

NoSeries == [f \in SeriesFields |-> "unset"]
NoFile == [read |-> FALSE, acquisition |-> <<>>, rest |-> "none"]

\* a TwoPhotonSeries of the input file: regularly sampled or with timestamps,
\* with or without an offset on its values
RefSeries(ts, off) ==
    [f \in SeriesFields |->
        CASE f = "name" -> "TwoPhotonSeries"
          [] f = "description" -> "two-photon movie"
          [] f = "data" -> "orig data"
          [] f = "starting_time" -> (IF ts = "None" THEN "0.5" ELSE "None")
          [] f = "rate" -> (IF ts = "None" THEN "30.0" ELSE "None")
          [] f = "unit" -> "n.a."
          [] f = "conversion" -> "2.0"
          [] f = "resolution" -> "-1.0"
          [] f = "comments" -> "no comments"
          [] f = "dimension" -> "512x512"
          [] f = "imaging_plane" -> "ImagingPlane"
          [] f = "timestamps" -> ts
          [] f = "offset" -> off]
References == {RefSeries(ts, off) : ts \in {"None", "timestamps"}, off \in {"0.0", "5.0"}}

\* another member of the acquisition group, which the run does not touch
OtherSeries == [RefSeries("None", "0.0") EXCEPT !["name"] = "OtherSeries",
                                                !["data"] = "other data"]

\* the file as io.read() returns it
InputFile(ref) ==
    [read |-> TRUE,
     acquisition |-> [n \in {ref["name"], OtherSeries["name"]} |->
                         IF n = ref["name"] THEN ref ELSE OtherSeries],
     rest |-> "metadata of the session"]

\* "if orig_2pseries.timestamps:" / "if orig_2pseries.timestamps is not None:"
HasTimestamps(orig) == orig["timestamps"] # "None"

\* kwargs = dict(name=..., ..., imaging_plane=...), plus timestamps when the
\* original has them
SeriesKwargs(orig, data) ==
    [f \in PassedFields \cup (IF HasTimestamps(orig) THEN {"timestamps"} ELSE {}) |->
        IF f = "data" THEN data ELSE orig[f]]

\* pynwb.ophys.TwoPhotonSeries(**kwargs)
TwoPhotonSeries(kwargs) ==
    [f \in SeriesFields |-> IF f \in DOMAIN kwargs THEN kwargs[f] ELSE FieldDefault(f)]

\* nwbfile.acquisition.pop(series_name); nwbfile.add_acquisition(new_2pseries)
ReplaceAcquisition(file, series_name, new) ==
    [file EXCEPT !.acquisition =
        [n \in (DOMAIN file.acquisition \ {series_name}) \cup {new["name"]} |->
            IF n = new["name"] THEN new ELSE file.acquisition[n]]]

WrInit ==
    /\ writer \in {"h5", "tiff"}
    /\ config_number \in -1..MaxLines
    /\ \E L \in 0..MaxLines : \E ln \in Lines :
          config_file = [p \in 1..L |-> IF p = config_number + 1 THEN ln ELSE Filler]
    /\ wr_pc = "start"
    /\ lineno = 0
    /\ params = <<>>
    /\ chunk_shape = PyUnset
    /\ compr = ComprUnset
    /\ comp_op = PyUnset
    /\ input_opened = FALSE
    /\ data_io_kwargs = KwargsUnset
    /\ output_file = "absent"
    /\ exported = FALSE
    /\ stats = EmptyStats
    /\ stats_file = FALSE
    /\ nwbfile = NoFile
    /\ orig_2pseries = NoSeries
    /\ new_2pseries = NoSeries
    /\ exported_nwb = NoFile
    /\ wr_err = NoError

WrIdle ==
    /\ writer = "h5"
    /\ config_number = 0
    /\ config_file = <<>>
    /\ wr_pc = "idle"
    /\ lineno = 0
    /\ params = <<>>
    /\ chunk_shape = PyUnset
    /\ compr = ComprUnset
    /\ comp_op = PyUnset
    /\ input_opened = FALSE
    /\ data_io_kwargs = KwargsUnset
    /\ output_file = "absent"
    /\ exported = FALSE
    /\ stats = EmptyStats
    /\ stats_file = FALSE
    /\ nwbfile = NoFile
    /\ orig_2pseries = NoSeries
    /\ new_2pseries = NoSeries
    /\ exported_nwb = NoFile
    /\ wr_err = NoError

\* an exception leaves main: nothing after the raising statement runs
Raise(e) ==
    /\ wr_pc' = "error"
    /\ wr_err' = e

\* main: "with open(config_file) as configset": the loop starts at line 0
MainOpenConfig ==
    /\ wr_pc = "start"
    /\ wr_pc' = "loop"
    /\ lineno' = 0
    /\ UNCHANGED <<writer, config_file, config_number, params, chunk_shape, compr,
                   comp_op, input_opened, data_io_kwargs, output_file, exported,
                   stats, stats_file, wr_err>>
    /\ UNCHANGED wrSeries
    /\ UNCHANGED notWr

\* main: a line whose number is not config_number is passed over unread
MainSkipLine ==
    /\ wr_pc = "loop"
    /\ lineno < Len(config_file)
    /\ lineno # config_number
    /\ lineno' = lineno + 1
    /\ UNCHANGED <<writer, config_file, config_number, wr_pc, params, chunk_shape,
                   compr, comp_op, input_opened, data_io_kwargs, output_file,
                   exported, stats, stats_file, wr_err>>
    /\ UNCHANGED wrSeries
    /\ UNCHANGED notWr

\* exp12_write_ophys.py main: the selected line is split and handed over whole
MainSelectH5 ==
    /\ wr_pc = "loop"
    /\ writer = "h5"
    /\ lineno < Len(config_file)
    /\ lineno = config_number
    /\ params' = Split(Strip(config_file[lineno + 1]))
    /\ wr_pc' = "process_config"
    /\ UNCHANGED <<writer, config_file, config_number, lineno, chunk_shape, compr,
                   comp_op, input_opened, data_io_kwargs, output_file, exported,
                   stats, stats_file, wr_err>>
    /\ UNCHANGED wrSeries
    /\ UNCHANGED notWr

\* exp12_write_ophys_tiff_to_nwb.py main: the first field is the row's own
\* number, which must be the line number; the rest is handed over
MainSelectTiff ==
    /\ wr_pc = "loop"
    /\ writer = "tiff"
    /\ lineno < Len(config_file)
    /\ lineno = config_number
    /\ LET fields == Split(Strip(config_file[lineno + 1]))
       IN IF fields = <<>>
          THEN /\ Raise(Error("IndexError", "list index out of range", <<>>, "select"))
               /\ UNCHANGED params
          ELSE IF ~IsInt(fields[1])
          THEN /\ Raise(Error("ValueError", "invalid literal for int()", <<>>, "select"))
               /\ UNCHANGED params
          ELSE IF ~IndexMatches(IntOf(fields[1]), lineno)
          THEN /\ Raise(Error("AssertionError", "configno does not match line number",
                              <<IntOf(fields[1]), lineno>>, "select"))
               /\ UNCHANGED params
          ELSE /\ params' = Tail(fields)
               /\ wr_pc' = "process_config"
               /\ UNCHANGED wr_err
    /\ UNCHANGED <<writer, config_file, config_number, lineno, chunk_shape, compr,
                   comp_op, input_opened, data_io_kwargs, output_file, exported,
                   stats, stats_file>>
    /\ UNCHANGED wrSeries
    /\ UNCHANGED notWr

\* main: the loop ran out of lines without reaching config_number
MainLoopEnd ==
    /\ wr_pc = "loop"
    /\ lineno >= Len(config_file)
    /\ wr_pc' = "after_loop"
    /\ UNCHANGED <<writer, config_file, config_number, lineno, params, chunk_shape,
                   compr, comp_op, input_opened, data_io_kwargs, output_file,
                   exported, stats, stats_file, wr_err>>
    /\ UNCHANGED wrSeries
    /\ UNCHANGED notWr

ChunkOf(p0) == IF writer = "h5" THEN ChunkSizesH5(p0) ELSE ChunkShapeTiff(p0)

\* process_config, up to the compression options: the assertion on the number
\* of parameters, then chunk sizes, codec, codec options, each of which may raise
ProcessConfigParse ==
    /\ wr_pc = "process_config"
    /\ IF Len(params) # 5
       THEN /\ Raise(Error("AssertionError", "requires exactly 5 parameters",
                           <<config_number, Len(params)>>, "arity"))
            /\ UNCHANGED <<chunk_shape, compr, comp_op>>
       ELSE IF ~ChunkOf(params[1]).ok
       THEN /\ Raise(Error("ValueError", "invalid literal for int()", <<>>, "chunk"))
            /\ UNCHANGED <<chunk_shape, compr, comp_op>>
       ELSE IF ~Compr(params[2], params[3]).ok
       THEN /\ Raise(Error("ValueError", "invalid literal for int()", <<>>, "compr"))
            /\ chunk_shape' = ChunkOf(params[1]).val
            /\ UNCHANGED <<compr, comp_op>>
       ELSE IF ~CompOp(params[2], params[4], params[5]).ok
       THEN /\ Raise(Error("ValueError", "invalid literal for int()", <<>>, "comp_op"))
            /\ chunk_shape' = ChunkOf(params[1]).val
            /\ compr' = Compr(params[2], params[3]).val
            /\ UNCHANGED comp_op
       ELSE /\ chunk_shape' = ChunkOf(params[1]).val
            /\ compr' = Compr(params[2], params[3]).val
            /\ comp_op' = CompOp(params[2], params[4], params[5]).val
            /\ wr_pc' = IF writer = "tiff" THEN "tiff_scan" ELSE "open_input"
            /\ UNCHANGED wr_err
    /\ UNCHANGED <<writer, config_file, config_number, lineno, params, input_opened,
                   data_io_kwargs, output_file, exported, stats, stats_file>>
    /\ UNCHANGED wrSeries
    /\ UNCHANGED notWr

\* process_config of the tiff writer: list the frame files and read the first
TiffScan ==
    /\ wr_pc = "tiff_scan"
    /\ \E found \in {"ok", "no_files", "not_uint16"} :
          IF found = "no_files"
          THEN Raise(Error("ValueError", "No TIFF files found", <<>>, "tiff"))
          ELSE IF found = "not_uint16"
          THEN Raise(Error("AssertionError", "Expected uint16 data type", <<>>, "tiff"))
          ELSE wr_pc' = "open_input" /\ UNCHANGED wr_err
    /\ UNCHANGED <<writer, config_file, config_number, lineno, params, chunk_shape,
                   compr, comp_op, input_opened, data_io_kwargs, output_file,
                   exported, stats, stats_file>>
    /\ UNCHANGED wrSeries
    /\ UNCHANGED notWr

\* process_config: open the input file, read the series, check it
OpenInput ==
    /\ wr_pc = "open_input"
    /\ input_opened' = TRUE
    /\ \E series_ok \in BOOLEAN :
          IF series_ok THEN wr_pc' = "build" /\ UNCHANGED wr_err
          ELSE IF writer = "h5"
          THEN Raise(Error("AssertionError", "assert orig_2pseries.data.chunks", <<>>, "input"))
          ELSE Raise(Error("ValueError", "TIFF frames do not match original series", <<>>, "input"))
    /\ \E ref \in References :
          /\ nwbfile' = InputFile(ref)
          /\ orig_2pseries' = ref
    /\ UNCHANGED <<new_2pseries, exported_nwb>>
    /\ UNCHANGED <<writer, config_file, config_number, lineno, params, chunk_shape,
                   compr, comp_op, data_io_kwargs, output_file, exported, stats,
                   stats_file>>
    /\ UNCHANGED notWr

\* process_config: the H5DataIO keyword arguments, the new series built from
\* the original's fields, and the replacement in the acquisition group
BuildDataIO ==
    /\ wr_pc = "build"
    /\ data_io_kwargs' = DataIoKwargs(chunk_shape, compr, comp_op, params[2])
    /\ new_2pseries' = TwoPhotonSeries(SeriesKwargs(orig_2pseries, "H5DataIO"))
    /\ nwbfile' = ReplaceAcquisition(nwbfile, orig_2pseries["name"],
                                     TwoPhotonSeries(SeriesKwargs(orig_2pseries, "H5DataIO")))
    /\ UNCHANGED <<orig_2pseries, exported_nwb>>
    /\ wr_pc' = "export"
    /\ UNCHANGED <<writer, config_file, config_number, lineno, params, chunk_shape,
                   compr, comp_op, input_opened, output_file, exported, stats,
                   stats_file, wr_err>>
    /\ UNCHANGED notWr

\* process_config: export to the output file; the export may raise part-way,
\* and the file may be gone again by the time it returns
Export ==
    /\ wr_pc = "export"
    /\ \E outcome \in {"complete", "raises", "gone"} :
          IF outcome = "raises"
          THEN /\ Raise(Error("Exception", "export failed", <<>>, "export"))
               /\ output_file' = "partial"
               /\ UNCHANGED <<exported, exported_nwb>>
          ELSE /\ output_file' = IF outcome = "complete" THEN "complete" ELSE "absent"
               /\ exported_nwb' = IF outcome = "complete" THEN nwbfile ELSE NoFile
               /\ exported' = TRUE
               /\ wr_pc' = "stat"
               /\ UNCHANGED wr_err
    /\ UNCHANGED <<writer, config_file, config_number, lineno, params, chunk_shape,
                   compr, comp_op, input_opened, data_io_kwargs, stats, stats_file>>
    /\ UNCHANGED <<nwbfile, orig_2pseries, new_2pseries>>
    /\ UNCHANGED notWr

\* the stats string built without the "except OSError": a missing output file
\* ends the run
StatAndReturnNoFallback ==
    /\ wr_pc = "stat"
    /\ IF output_file = "complete"
       THEN /\ stats' = [text |-> <<"configNo", "n", "t_write", "file_size">>,
                         config |-> <<config_number>>]
            /\ wr_pc' = "after_loop"
            /\ UNCHANGED wr_err
       ELSE /\ Raise(Error("OSError", "No such file", <<>>, "stat"))
            /\ UNCHANGED stats
    /\ UNCHANGED <<writer, config_file, config_number, lineno, params, chunk_shape,
                   compr, comp_op, input_opened, data_io_kwargs, output_file,
                   exported, stats_file>>
    /\ UNCHANGED wrSeries
    /\ UNCHANGED notWr

\* process_config: the stats string, with the file size or "N/A"; then main's break
StatAndReturn ==
    /\ wr_pc = "stat"
    /\ stats' = [text |-> <<"configNo", "n", "t_write",
                           IF output_file = "complete" THEN "file_size" ELSE "N/A">>,
                 config |-> <<config_number>>]
    /\ wr_pc' = "after_loop"
    /\ UNCHANGED <<writer, config_file, config_number, lineno, params, chunk_shape,
                   compr, comp_op, input_opened, data_io_kwargs, output_file,
                   exported, stats_file, wr_err>>
    /\ UNCHANGED wrSeries
    /\ UNCHANGED notWr

\* main after the loop: no stats means the config number was not found;
\* otherwise the total time is appended and the stats file written
MainAfterLoop ==
    /\ wr_pc = "after_loop"
    /\ IF StatsEmpty(stats)
       THEN /\ Raise(Error("ValueError", "Config number not found",
                           <<config_number>>, "lookup"))
            /\ UNCHANGED <<stats, stats_file>>
       ELSE /\ stats' = [stats EXCEPT !.text = Append(@, "total_t")]
            /\ stats_file' = TRUE
            /\ wr_pc' = "done"
            /\ UNCHANGED wr_err
    /\ UNCHANGED <<writer, config_file, config_number, lineno, params, chunk_shape,
                   compr, comp_op, input_opened, data_io_kwargs, output_file,
                   exported>>
    /\ UNCHANGED wrSeries
    /\ UNCHANGED notWr

WrNext ==
    \/ MainOpenConfig
    \/ MainSkipLine
    \/ MainSelectH5
    \/ MainSelectTiff
    \/ MainLoopEnd
    \/ ProcessConfigParse
    \/ TiffScan
    \/ OpenInput
    \/ BuildDataIO
    \/ Export
    \/ StatAndReturn
    \/ MainAfterLoop

\* =========================================================================
\* The read benchmark: exp12_read_ophys.py
\* =========================================================================
RANDOM_SEED == 42
O1_BATCH_SIZE == 500
O2_BATCH_SIZE == 5000
N_REPEATS == 5
N_SAMPLES == 50
N_LOCATIONS == 50
O4_BATCH_SIZE == 500
PATCH_SIZE == 16

\* ---- the random generator. np.random.default_rng(seed) is a deterministic
\* a generator seeded from the clock instead of the seed
DefaultRngFromClock(seed) == seed + now

\* generator; a small linear congruential generator stands in for it here: the
\* stream is a function of the seed alone.
DefaultRng(seed) == seed
RngStep(st) == (st * 75 + 74) % 65537

\* rng.integers(low, high, size): size draws from [low, high), and the
\* generator's state after them; ValueError when the range is empty
RECURSIVE RngIntegers(_, _, _, _)
RngIntegers(st, low, high, size) ==
    IF size = 0 THEN [vals |-> <<>>, st |-> st]
    ELSE IF size = 1
    THEN [vals |-> <<low + (RngStep(st) % (high - low))>>, st |-> RngStep(st)]
    ELSE LET half == size \div 2
             head == RngIntegers(st, low, high, half)
             rest == RngIntegers(head.st, low, high, size - half)
         IN [vals |-> head.vals \o rest.vals, st |-> rest.st]
RngRangeOk(low, high) == low < high

\* ---- batch arithmetic
\* t0 = i * batch_size
BatchStart(k, S) == k * S
\* t1 = t0 + batch_size, without the clamp to n_frames
BatchStopUnclamped(t0, S, N) == t0 + S
\* t1 = min(t0 + batch_size, n_frames)
BatchStop(t0, S, N) == Min(t0 + S, N)
\* math.ceil(n_frames / batch_size), exact for every frame count a file can hold
NBatches(N, S) == CeilDiv(N, S)

\* ---- the input file and the clock
\* drop_cache(filepath): the pages of the file leave the OS cache
DropCache ==
    /\ drops' = drops + 1
    /\ last_op' = "drop"
    /\ page_cache' = "dropped"
    /\ drop_log' = Append(drop_log, [unit |-> unit, during_timing |-> timing,
                                     handle_open |-> io.open])
    /\ UNCHANGED io

\* with pynwb.NWBHDF5IO(input_filepath, "r") as io: nwbfile = io.read()
OpenHandle ==
    /\ io' = [open |-> TRUE, id |-> io.id + 1,
              after_drop |-> IF last_op = "drop" THEN drops ELSE 0]
    /\ last_op' = "open"
    /\ page_cache' = "warm"
    /\ UNCHANGED drops

\* the end of the "with" block
CloseHandle ==
    /\ io' = [io EXCEPT !.open = FALSE]
    /\ last_op' = "close"
    /\ UNCHANGED <<drops, page_cache>>

\* _ = data[t0:t1, y0:y1, x0:x1]: the clock runs while the frames are read
ReadData(t0, t1, y0, y1, x0, x1) ==
    /\ now' = now + (t1 - t0) * ns_per_frame
    /\ last_op' = "read"
    /\ page_cache' = "warm"
    /\ read_log' = Append(read_log,
          [unit |-> unit, h |-> io.id, handle_open |-> io.open,
           after_drop |-> io.after_drop, drops |-> drops, timed |-> timing,
           sel |-> <<t0, t1, y0, y1, x0, x1>>])
    /\ UNCHANGED <<io, drops, drop_log, start_time, timing>>

NoResult == [keys |-> {}, repeat_total_times |-> <<>>, location_total_times |-> <<>>,
             batch_times |-> <<>>, batch_sizes |-> <<>>, read_times |-> <<>>,
             frame_indices |-> <<>>, xy_locations |-> <<>>]

\* ---- the calls the runs make
SeqCalls == {[fn |-> "seq", S |-> sz, R |-> r] : sz \in 1..MaxBatch, r \in 1..MaxRepeats}
\* benchmark_o1 and benchmark_o2
O1Call == [fn |-> "seq", S |-> O1_BATCH_SIZE, R |-> N_REPEATS]
O2Call == [fn |-> "seq", S |-> O2_BATCH_SIZE, R |-> N_REPEATS]
O3Call == [fn |-> "o3", S |-> 0, R |-> 0]
O4Call == [fn |-> "o4", S |-> 0, R |-> 0]
Calls == SeqCalls \cup {O1Call, O2Call, O3Call, O4Call}
\* the frame counts of the stored series: the small ones and the scenario's
ReadFrameCounts == (0..MaxReadFrames) \cup {1205}
\* <<dim_y, dim_x>> of the stored series
ReadDims == {<<16, 16>>, <<20, 18>>, <<8, 20>>}

RdInit ==
    /\ \E call \in Calls, N \in ReadFrameCounts, dims \in ReadDims :
          \* a long movie is read in the batch sizes of the use cases only, and
          \* only the spatial-patch use case looks at the frame dimensions
          /\ (N > MaxReadFrames /\ call.fn = "seq") => call.S >= O1_BATCH_SIZE
          /\ call.fn # "o4" => dims = <<16, 16>>
          /\ rd_fn = call.fn
          /\ batch_size = call.S
          /\ n_repeats = call.R
          /\ data_shape = <<N, dims[1], dims[2]>>
    /\ ns_per_frame \in {1, 2}
    /\ rd_pc = "call"
    /\ unit = 0
    /\ i = 0
    /\ n_frames = 0
    /\ n_batches = 0
    /\ batch_read_times = <<>>
    /\ batch_sizes = <<>>
    /\ all_batch_times = <<>>
    /\ unit_total_times = <<>>
    /\ read_times = <<>>
    /\ frame_indices = <<>>
    /\ xy_starts = <<<<>>, <<>>>>
    /\ now = 0
    /\ start_time = 0
    /\ timing = FALSE
    /\ io = [open |-> FALSE, id |-> 0, after_drop |-> 0]
    /\ drops = 0
    /\ last_op = "none"
    /\ page_cache = "warm"
    /\ read_log = <<>>
    /\ drop_log = <<>>
    /\ result = NoResult
    /\ rd_err = NoError

RdIdle ==
    /\ rd_fn = "none"
    /\ batch_size = 0
    /\ n_repeats = 0
    /\ data_shape = <<0, 0, 0>>
    /\ ns_per_frame = 1
    /\ rd_pc = "idle"
    /\ unit = 0
    /\ i = 0
    /\ n_frames = 0
    /\ n_batches = 0
    /\ batch_read_times = <<>>
    /\ batch_sizes = <<>>
    /\ all_batch_times = <<>>
    /\ unit_total_times = <<>>
    /\ read_times = <<>>
    /\ frame_indices = <<>>
    /\ xy_starts = <<<<>>, <<>>>>
    /\ now = 0
    /\ start_time = 0
    /\ timing = FALSE
    /\ io = [open |-> FALSE, id |-> 0, after_drop |-> 0]
    /\ drops = 0
    /\ last_op = "none"
    /\ page_cache = "warm"
    /\ read_log = <<>>
    /\ drop_log = <<>>
    /\ result = NoResult
    /\ rd_err = NoError

\* ------------------------------------------- benchmark_sequential_batches
\* the function is entered: all_batch_times = [], repeat_total_times = []
SeqEnter ==
    /\ rd_pc = "call"
    /\ rd_fn = "seq"
    /\ rd_pc' = "seq_repeat"
    /\ UNCHANGED <<rdCall, rdLoop, rdAcc, rdDraw, rdClock, rdFile, rdLogs, rdEnd>>
    /\ UNCHANGED notRd

\* "for repeat in range(n_repeats): drop_cache(input_filepath)", only before
\* the first repeat
SeqDropCacheFirstOnly ==
    /\ rd_pc = "seq_repeat"
    /\ unit < n_repeats
    /\ IF unit = 0 THEN DropCache
       ELSE UNCHANGED <<io, drops, last_op, page_cache, drop_log>>
    /\ rd_pc' = "seq_open"
    /\ UNCHANGED <<rdCall, rdLoop, rdAcc, rdDraw, rdClock, read_log, rdEnd>>
    /\ UNCHANGED notRd

\* "for repeat in range(n_repeats): drop_cache(input_filepath)"
SeqDropCache ==
    /\ rd_pc = "seq_repeat"
    /\ unit < n_repeats
    /\ DropCache
    /\ rd_pc' = "seq_open"
    /\ UNCHANGED <<rdCall, rdLoop, rdAcc, rdDraw, rdClock, read_log, rdEnd>>
    /\ UNCHANGED notRd

\* the "with" block is entered: the file is opened, n_frames and n_batches are
\* taken from it, and the two per-repeat lists start empty
SeqOpen ==
    /\ rd_pc = "seq_open"
    /\ OpenHandle
    /\ n_frames' = data_shape[1]
    /\ n_batches' = NBatches(data_shape[1], batch_size)
    /\ batch_read_times' = <<>>
    /\ batch_sizes' = <<>>
    /\ i' = 0
    /\ rd_pc' = "seq_batch"
    /\ UNCHANGED <<rdCall, unit, all_batch_times, unit_total_times, read_times,
                   rdDraw, rdClock, rdLogs, rdEnd>>
    /\ UNCHANGED notRd

\* "for i in range(n_batches)": start_time = time.perf_counter_ns()
SeqStartTimer ==
    /\ rd_pc = "seq_batch"
    /\ i < n_batches
    /\ start_time' = now
    /\ timing' = TRUE
    /\ rd_pc' = "seq_read"
    /\ UNCHANGED <<rdCall, rdLoop, rdAcc, rdDraw, now, rdFile, rdLogs, rdEnd>>
    /\ UNCHANGED notRd

\* _ = data[t0:t1, :, :]
SeqRead ==
    /\ rd_pc = "seq_read"
    /\ LET t0 == BatchStart(i, batch_size)
           t1 == BatchStop(t0, batch_size, n_frames)
       IN ReadData(t0, t1, 0, data_shape[2], 0, data_shape[3])
    /\ rd_pc' = "seq_stop"
    /\ UNCHANGED <<rdCall, rdLoop, rdAcc, rdDraw, rdEnd>>
    /\ UNCHANGED notRd

\* end_time = time.perf_counter_ns(); the two appends
SeqStopTimer ==
    /\ rd_pc = "seq_stop"
    /\ LET t0 == BatchStart(i, batch_size)
           t1 == BatchStop(t0, batch_size, n_frames)
       IN /\ batch_read_times' = Append(batch_read_times, now - start_time)
          /\ batch_sizes' = Append(batch_sizes, t1 - t0)
    /\ timing' = FALSE
    /\ i' = i + 1
    /\ rd_pc' = "seq_batch"
    /\ UNCHANGED <<rdCall, unit, n_frames, n_batches, all_batch_times,
                   unit_total_times, read_times, rdDraw, now, start_time, rdFile,
                   rdLogs, rdEnd>>
    /\ UNCHANGED notRd

\* the batch loop is over: the "with" block closes the file, the repeat's
\* times and their sum are appended
SeqEndRepeat ==
    /\ rd_pc = "seq_batch"
    /\ i >= n_batches
    /\ CloseHandle
    /\ all_batch_times' = Append(all_batch_times, batch_read_times)
    /\ unit_total_times' = Append(unit_total_times, SumSeq(batch_read_times))
    /\ unit' = unit + 1
    /\ rd_pc' = "seq_repeat"
    /\ UNCHANGED <<rdCall, i, n_frames, n_batches, batch_read_times, batch_sizes,
                   read_times, rdDraw, rdClock, rdLogs, rdEnd>>
    /\ UNCHANGED notRd

\* the returned dict; batch_sizes is the list of the last repeat
SeqReturn ==
    /\ rd_pc = "seq_repeat"
    /\ unit >= n_repeats
    /\ result' = [NoResult EXCEPT
                    !.keys = {"repeat_total_times", "batch_times", "batch_sizes"},
                    !.repeat_total_times = unit_total_times,
                    !.batch_times = all_batch_times,
                    !.batch_sizes = batch_sizes]
    /\ rd_pc' = "done"
    /\ UNCHANGED <<rdCall, rdLoop, rdAcc, rdDraw, rdClock, rdFile, rdLogs, rd_err>>
    /\ UNCHANGED notRd

\* ------------------------------------------------------------ benchmark_o3
\* "Get dimensions": a handle is opened for n_frames and closed again; then
\* the indices are drawn
O3ReadShape ==
    /\ rd_pc = "call"
    /\ rd_fn = "o3"
    /\ io' = [open |-> FALSE, id |-> io.id + 1, after_drop |-> 0]
    /\ last_op' = "close"
    /\ page_cache' = "warm"
    /\ n_frames' = data_shape[1]
    /\ IF RngRangeOk(0, data_shape[1])
       THEN /\ frame_indices' =
                  RngIntegers(DefaultRng(RANDOM_SEED), 0, data_shape[1], N_SAMPLES).vals
            /\ rd_pc' = "o3_sample"
            /\ UNCHANGED rd_err
       ELSE /\ rd_pc' = "error"
            /\ rd_err' = Error("ValueError", "low >= high", <<>>, "rng")
            /\ UNCHANGED frame_indices
    /\ UNCHANGED <<rdCall, unit, i, n_batches, rdAcc, xy_starts, rdClock, drops,
                   rdLogs, result>>
    /\ UNCHANGED notRd

\* "for sample in range(n_samples)": drop_cache(input_filepath)
O3DropCache ==
    /\ rd_pc = "o3_sample"
    /\ unit < N_SAMPLES
    /\ DropCache
    /\ rd_pc' = "o3_open"
    /\ UNCHANGED <<rdCall, rdLoop, rdAcc, rdDraw, rdClock, read_log, rdEnd>>
    /\ UNCHANGED notRd

O3Open ==
    /\ rd_pc = "o3_open"
    /\ OpenHandle
    /\ rd_pc' = "o3_start"
    /\ UNCHANGED <<rdCall, rdLoop, rdAcc, rdDraw, rdClock, rdLogs, rdEnd>>
    /\ UNCHANGED notRd

O3StartTimer ==
    /\ rd_pc = "o3_start"
    /\ start_time' = now
    /\ timing' = TRUE
    /\ rd_pc' = "o3_read"
    /\ UNCHANGED <<rdCall, rdLoop, rdAcc, rdDraw, now, rdFile, rdLogs, rdEnd>>
    /\ UNCHANGED notRd

\* the read taking a window of two frames from t on
O3ReadWindow ==
    /\ rd_pc = "o3_read"
    /\ LET t == frame_indices[unit + 1]
       IN ReadData(t, t + 2, 0, data_shape[2], 0, data_shape[3])
    /\ rd_pc' = "o3_stop"
    /\ UNCHANGED <<rdCall, rdLoop, rdAcc, rdDraw, rdEnd>>
    /\ UNCHANGED notRd

\* _ = data[t, :, :] with t = int(frame_indices[sample])
O3Read ==
    /\ rd_pc = "o3_read"
    /\ LET t == frame_indices[unit + 1]
       IN ReadData(t, t + 1, 0, data_shape[2], 0, data_shape[3])
    /\ rd_pc' = "o3_stop"
    /\ UNCHANGED <<rdCall, rdLoop, rdAcc, rdDraw, rdEnd>>
    /\ UNCHANGED notRd

\* end_time = ...; the "with" block closes the file; read_times.append(...)
O3StopTimer ==
    /\ rd_pc = "o3_stop"
    /\ timing' = FALSE
    /\ CloseHandle
    /\ read_times' = Append(read_times, now - start_time)
    /\ unit' = unit + 1
    /\ rd_pc' = "o3_sample"
    /\ UNCHANGED <<rdCall, i, n_frames, n_batches, batch_read_times, batch_sizes,
                   all_batch_times, unit_total_times, rdDraw, now, start_time,
                   rdLogs, rdEnd>>
    /\ UNCHANGED notRd

O3Return ==
    /\ rd_pc = "o3_sample"
    /\ unit >= N_SAMPLES
    /\ result' = [NoResult EXCEPT
                    !.keys = {"read_times", "frame_indices"},
                    !.read_times = read_times,
                    !.frame_indices = frame_indices]
    /\ rd_pc' = "done"
    /\ UNCHANGED <<rdCall, rdLoop, rdAcc, rdDraw, rdClock, rdFile, rdLogs, rd_err>>
    /\ UNCHANGED notRd

\* ------------------------------------------------------------ benchmark_o4
\* "Get dimensions": a handle is opened for the shape and closed again; then
\* the origins are drawn, x first, and n_batches is computed
O4ReadShape ==
    /\ rd_pc = "call"
    /\ rd_fn = "o4"
    /\ io' = [open |-> FALSE, id |-> io.id + 1, after_drop |-> 0]
    /\ last_op' = "close"
    /\ page_cache' = "warm"
    /\ n_frames' = data_shape[1]
    /\ LET dim_y == data_shape[2]
           dim_x == data_shape[3]
           xs == RngIntegers(DefaultRng(RANDOM_SEED), 0, dim_x - PATCH_SIZE + 1, N_LOCATIONS)
           ys == RngIntegers(xs.st, 0, dim_y - PATCH_SIZE + 1, N_LOCATIONS)
       IN IF RngRangeOk(0, dim_x - PATCH_SIZE + 1) /\ RngRangeOk(0, dim_y - PATCH_SIZE + 1)
          THEN /\ xy_starts' = <<xs.vals, ys.vals>>
               /\ n_batches' = NBatches(data_shape[1], O4_BATCH_SIZE)
               /\ rd_pc' = "o4_loc"
               /\ UNCHANGED rd_err
          ELSE /\ rd_pc' = "error"
               /\ rd_err' = Error("ValueError", "low >= high", <<>>, "rng")
               /\ UNCHANGED <<xy_starts, n_batches>>
    /\ UNCHANGED <<rdCall, unit, i, rdAcc, frame_indices, rdClock, drops, rdLogs,
                   result>>
    /\ UNCHANGED notRd

\* "for loc in range(n_locations)": drop_cache(input_filepath)
O4DropCache ==
    /\ rd_pc = "o4_loc"
    /\ unit < N_LOCATIONS
    /\ DropCache
    /\ rd_pc' = "o4_open"
    /\ UNCHANGED <<rdCall, rdLoop, rdAcc, rdDraw, rdClock, read_log, rdEnd>>
    /\ UNCHANGED notRd

O4Open ==
    /\ rd_pc = "o4_open"
    /\ OpenHandle
    /\ batch_read_times' = <<>>
    /\ batch_sizes' = <<>>
    /\ i' = 0
    /\ rd_pc' = "o4_batch"
    /\ UNCHANGED <<rdCall, unit, n_frames, n_batches, all_batch_times,
                   unit_total_times, read_times, rdDraw, rdClock, rdLogs, rdEnd>>
    /\ UNCHANGED notRd

O4StartTimer ==
    /\ rd_pc = "o4_batch"
    /\ i < n_batches
    /\ start_time' = now
    /\ timing' = TRUE
    /\ rd_pc' = "o4_read"
    /\ UNCHANGED <<rdCall, rdLoop, rdAcc, rdDraw, now, rdFile, rdLogs, rdEnd>>
    /\ UNCHANGED notRd

\* _ = data[t0:t1, y0:y1, x0:x1]
O4Read ==
    /\ rd_pc = "o4_read"
    /\ LET t0 == BatchStart(i, O4_BATCH_SIZE)
           t1 == BatchStop(t0, O4_BATCH_SIZE, n_frames)
           x0 == xy_starts[1][unit + 1]
           y0 == xy_starts[2][unit + 1]
       IN ReadData(t0, t1, y0, y0 + PATCH_SIZE, x0, x0 + PATCH_SIZE)
    /\ rd_pc' = "o4_stop"
    /\ UNCHANGED <<rdCall, rdLoop, rdAcc, rdDraw, rdEnd>>
    /\ UNCHANGED notRd

O4StopTimer ==
    /\ rd_pc = "o4_stop"
    /\ LET t0 == BatchStart(i, O4_BATCH_SIZE)
           t1 == BatchStop(t0, O4_BATCH_SIZE, n_frames)
       IN /\ batch_read_times' = Append(batch_read_times, now - start_time)
          /\ batch_sizes' = Append(batch_sizes, t1 - t0)
    /\ timing' = FALSE
    /\ i' = i + 1
    /\ rd_pc' = "o4_batch"
    /\ UNCHANGED <<rdCall, unit, n_frames, n_batches, all_batch_times,
                   unit_total_times, read_times, rdDraw, now, start_time, rdFile,
                   rdLogs, rdEnd>>
    /\ UNCHANGED notRd

O4EndLocation ==
    /\ rd_pc = "o4_batch"
    /\ i >= n_batches
    /\ CloseHandle
    /\ all_batch_times' = Append(all_batch_times, batch_read_times)
    /\ unit_total_times' = Append(unit_total_times, SumSeq(batch_read_times))
    /\ unit' = unit + 1
    /\ rd_pc' = "o4_loc"
    /\ UNCHANGED <<rdCall, i, n_frames, n_batches, batch_read_times, batch_sizes,
                   read_times, rdDraw, rdClock, rdLogs, rdEnd>>
    /\ UNCHANGED notRd

O4Return ==
    /\ rd_pc = "o4_loc"
    /\ unit >= N_LOCATIONS
    /\ result' = [NoResult EXCEPT
                    !.keys = {"location_total_times", "batch_times", "batch_sizes",
                              "xy_locations"},
                    !.location_total_times = unit_total_times,
                    !.batch_times = all_batch_times,
                    !.batch_sizes = batch_sizes,
                    !.xy_locations = [k \in 1..N_LOCATIONS |->
                                         <<xy_starts[1][k], xy_starts[2][k]>>]]
    /\ rd_pc' = "done"
    /\ UNCHANGED <<rdCall, rdLoop, rdAcc, rdDraw, rdClock, rdFile, rdLogs, rd_err>>
    /\ UNCHANGED notRd

RdNext ==
    \/ SeqEnter
    \/ SeqDropCache
    \/ SeqOpen
    \/ SeqStartTimer
    \/ SeqRead
    \/ SeqStopTimer
    \/ SeqEndRepeat
    \/ SeqReturn
    \/ O3ReadShape
    \/ O3DropCache
    \/ O3Open
    \/ O3StartTimer
    \/ O3Read
    \/ O3StopTimer
    \/ O3Return
    \/ O4ReadShape
    \/ O4DropCache
    \/ O4Open
    \/ O4StartTimer
    \/ O4Read
    \/ O4StopTimer
    \/ O4EndLocation
    \/ O4Return

\* =========================================================================
\* The benchmark program: main() of exp12_read_ophys.py
\* =========================================================================
\* ---- f-strings
RECURSIVE DigitsOf(_)
\* str(n) for n >= 0
DigitsOf(n) ==
    IF n < 10 THEN <<DigitChars[n + 1]>>
    ELSE DigitsOf(n \div 10) \o <<DigitChars[(n % 10) + 1]>>

RECURSIVE ZeroPad(_, _)
ZeroPad(s, w) == IF Len(s) >= w THEN s ELSE ZeroPad(<<"0">> \o s, w)

\* f"{n:03d}": at least three characters, the sign counted, zeros after it
Format03d(n) ==
    IF n < 0 THEN <<"-">> \o ZeroPad(DigitsOf(0 - n), 2) ELSE ZeroPad(DigitsOf(n), 3)

S_Config == <<"_","C","o","n","f","i","g">>
S_nwb == <<".","n","w","b">>
S_h5 == <<".","h","5">>
S_exp12_ == <<"e","x","p","1","2","_">>
S_read_ == <<"r","e","a","d","_">>
S_ophys1 == <<"o","p","h","y","s","1">>

\* the name resolved as if the number counted lines from 1
ReadInputNameOneBased(output_label, n) ==
    output_label \o S_Config \o Format03d(n - 1) \o S_nwb
\* input_filepath of exp12_read_ophys.py, without the directory
ReadInputName(output_label, n) == output_label \o S_Config \o Format03d(n) \o S_nwb
\* output_filepath of exp12_read_ophys.py, without the directory
ReadOutputName(output_label, n) ==
    S_read_ \o output_label \o S_Config \o Format03d(n) \o S_h5
\* output_filepath of exp12_write_ophys.py, without the directory
WriteH5OutputName(output_label, n) ==
    S_exp12_ \o output_label \o S_Config \o Format03d(n) \o S_nwb
\* output_filepath of exp12_write_ophys_tiff_to_nwb.py, without the directory
WriteTiffOutputName(output_label, n) == output_label \o S_Config \o Format03d(n) \o S_nwb

WriterOutputName(w, output_label, n) ==
    IF w = "h5" THEN WriteH5OutputName(output_label, n)
    ELSE WriteTiffOutputName(output_label, n)

\* ---- the registry, in the order of the dict literal
USE_CASES == <<
    [name |-> "o1", call |-> O1Call, group_name |-> "o1_sequential_500"],
    [name |-> "o2", call |-> O2Call, group_name |-> "o2_sequential_5000"],
    [name |-> "o3", call |-> O3Call, group_name |-> "o3_random_frame"],
    [name |-> "o4", call |-> O4Call, group_name |-> "o4_spatial_patch"] >>

\* isinstance(value, np.ndarray): every value of the dicts the use cases return
\* is built by np.array or np.column_stack
NdarrayKeys(res) == res.keys

\* print_summary: which list is summarised and which statistics are printed
SummaryOf(name, res) ==
    IF "repeat_total_times" \in res.keys
    THEN [use_case |-> name, of |-> "repeat_total_times",
          count |-> Len(res.repeat_total_times), stats |-> {"mean", "std", "min", "max"}]
    ELSE IF "read_times" \in res.keys
    THEN [use_case |-> name, of |-> "read_times",
          count |-> Len(res.read_times), stats |-> {"mean", "std", "sum"}]
    ELSE IF "location_total_times" \in res.keys
    THEN [use_case |-> name, of |-> "location_total_times",
          count |-> Len(res.location_total_times), stats |-> {"mean", "std", "min", "max"}]
    ELSE [use_case |-> name, of |-> "", count |-> 0, stats |-> {}]

\* write_results creating every group under one fixed name
GroupOfFixedName(group_name, res) ==
    [name |-> "results",
     datasets |-> {k \in res.keys : k \in NdarrayKeys(res)},
     attrs |-> {k \in res.keys : k \notin NdarrayKeys(res)},
     data |-> res]

\* write_results: the group created for one use case
GroupOf(group_name, res) ==
    [name |-> group_name,
     datasets |-> {k \in res.keys : k \in NdarrayKeys(res)},
     attrs |-> {k \in res.keys : k \notin NdarrayKeys(res)},
     data |-> res]

\* ---- the runs
MainLabels == {S_ophys1, S_exp12_ \o S_ophys1}
MainConfigNumbers == {7, 70}
\* what the directory holds: nothing, or the output of one writer run
Produced ==
    {{}} \cup {{WriterOutputName(w, S_ophys1, n)} : w \in {"h5", "tiff"},
                                                    n \in MainConfigNumbers}
MainFrameCounts == {0, MaxReadFrames, 1205}
MainDims == {<<16, 16>>, <<8, 20>>}

NoH5 == [exists |-> FALSE, open |-> FALSE, name |-> <<>>, groups |-> <<>>]

MnInit ==
    /\ mn_pc = "start"
    /\ mn_args \in [config_number : MainConfigNumbers, output_label : MainLabels]
    /\ fs \in Produced
    /\ output_dir_made = FALSE
    /\ h5out = NoH5
    /\ stdout = <<>>
    /\ exit_status = -1
    /\ use_case = 0
    /\ runs = <<>>
    \* the series stored in the input file, and the cost of reading it
    /\ \E N \in MainFrameCounts, dims \in MainDims : data_shape = <<N, dims[1], dims[2]>>
    /\ ns_per_frame \in {1, 2}
    /\ rd_fn = "none"
    /\ batch_size = 0
    /\ n_repeats = 0
    /\ rd_pc = "idle"
    /\ unit = 0
    /\ i = 0
    /\ n_frames = 0
    /\ n_batches = 0
    /\ batch_read_times = <<>>
    /\ batch_sizes = <<>>
    /\ all_batch_times = <<>>
    /\ unit_total_times = <<>>
    /\ read_times = <<>>
    /\ frame_indices = <<>>
    /\ xy_starts = <<<<>>, <<>>>>
    /\ now = 0
    /\ start_time = 0
    /\ timing = FALSE
    /\ io = [open |-> FALSE, id |-> 0, after_drop |-> 0]
    /\ drops = 0
    /\ last_op = "none"
    /\ page_cache = "warm"
    /\ read_log = <<>>
    /\ drop_log = <<>>
    /\ result = NoResult
    /\ rd_err = NoError

MnIdle ==
    /\ mn_pc = "idle"
    /\ mn_args = [config_number |-> 0, output_label |-> <<>>]
    /\ fs = {}
    /\ output_dir_made = FALSE
    /\ h5out = NoH5
    /\ stdout = <<>>
    /\ exit_status = -1
    /\ use_case = 0
    /\ runs = <<>>

\* the existence check placed after output_dir.mkdir
MainInputMissingAfterMkdir ==
    /\ mn_pc = "start"
    /\ ReadInputName(mn_args.output_label, mn_args.config_number) \notin fs
    /\ output_dir_made' = TRUE
    /\ stdout' = Append(stdout,
          [line |-> "Input file not found",
           path |-> ReadInputName(mn_args.output_label, mn_args.config_number)])
    /\ exit_status' = 1
    /\ mn_pc' = "exit"
    /\ UNCHANGED <<runs, mn_args, fs, h5out, use_case>>
    /\ UNCHANGED rdVars
    /\ UNCHANGED notMn

\* "if not input_filepath.exists()": print, sys.exit(1)
MainInputMissing ==
    /\ mn_pc = "start"
    /\ ReadInputName(mn_args.output_label, mn_args.config_number) \notin fs
    /\ stdout' = Append(stdout,
          [line |-> "Input file not found",
           path |-> ReadInputName(mn_args.output_label, mn_args.config_number)])
    /\ exit_status' = 1
    /\ mn_pc' = "exit"
    /\ UNCHANGED <<runs, mn_args, fs, output_dir_made, h5out, use_case>>
    /\ UNCHANGED rdVars
    /\ UNCHANGED notMn

\* the input exists: output_dir.mkdir, the three header lines, and the output
\* file is opened with mode "w"
MainOpenOutput ==
    /\ mn_pc = "start"
    /\ ReadInputName(mn_args.output_label, mn_args.config_number) \in fs
    /\ output_dir_made' = TRUE
    /\ stdout' = Append(stdout,
          [line |-> "Benchmarking", count |-> Len(USE_CASES),
           input |-> ReadInputName(mn_args.output_label, mn_args.config_number),
           output |-> ReadOutputName(mn_args.output_label, mn_args.config_number)])
    /\ h5out' = [exists |-> TRUE, open |-> TRUE,
                 name |-> ReadOutputName(mn_args.output_label, mn_args.config_number),
                 groups |-> <<>>]
    /\ use_case' = 1
    /\ mn_pc' = "loop"
    /\ UNCHANGED <<runs, mn_args, fs, exit_status>>
    /\ UNCHANGED rdVars
    /\ UNCHANGED notMn

\* "for use_case, uc_info in USE_CASES.items()": the heading is printed and
\* uc_info["func"] is called
MainRunUseCase ==
    /\ mn_pc = "loop"
    /\ use_case <= Len(USE_CASES)
    /\ stdout' = Append(stdout, [line |-> "heading", use_case |-> USE_CASES[use_case].name])
    /\ rd_fn' = USE_CASES[use_case].call.fn
    /\ batch_size' = USE_CASES[use_case].call.S
    /\ n_repeats' = USE_CASES[use_case].call.R
    /\ rd_pc' = "call"
    /\ unit' = 0
    /\ i' = 0
    /\ n_frames' = 0
    /\ n_batches' = 0
    /\ batch_read_times' = <<>>
    /\ batch_sizes' = <<>>
    /\ all_batch_times' = <<>>
    /\ unit_total_times' = <<>>
    /\ read_times' = <<>>
    /\ frame_indices' = <<>>
    /\ xy_starts' = <<<<>>, <<>>>>
    /\ start_time' = 0
    /\ timing' = FALSE
    /\ io' = [open |-> FALSE, id |-> 0, after_drop |-> 0]
    /\ drops' = 0
    /\ last_op' = "none"
    /\ read_log' = <<>>
    /\ drop_log' = <<>>
    /\ result' = NoResult
    /\ rd_err' = NoError
    /\ mn_pc' = "running"
    /\ UNCHANGED <<data_shape, ns_per_frame, now, page_cache>>
    /\ UNCHANGED <<runs, mn_args, fs, output_dir_made, h5out, exit_status, use_case>>
    /\ UNCHANGED notMn

\* the log entry of a use case that returned: the reads it made, what it drew
\* along the time axis, and the keys of its result
RunOf(name) ==
    [use_case |-> name, fn |-> rd_fn, reads |-> read_log, frame_indices |-> frame_indices,
     n_frames |-> data_shape[1], keys |-> result.keys]

\* the use case has returned: print_summary(use_case, results)
MainPrintSummary ==
    /\ mn_pc = "running"
    /\ rd_pc = "done"
    /\ stdout' = Append(stdout,
          [line |-> "summary", summary |-> SummaryOf(USE_CASES[use_case].name, result)])
    /\ runs' = Append(runs, RunOf(USE_CASES[use_case].name))
    /\ mn_pc' = "write"
    /\ UNCHANGED <<mn_args, fs, output_dir_made, h5out, exit_status, use_case>>
    /\ UNCHANGED rdVars
    /\ UNCHANGED notMn

\* write_results(output_file, uc_info["group_name"], results)
MainWriteResults ==
    /\ mn_pc = "write"
    /\ h5out' = [h5out EXCEPT
                   !.groups = Append(@, GroupOf(USE_CASES[use_case].group_name, result))]
    /\ use_case' = use_case + 1
    /\ mn_pc' = "loop"
    /\ UNCHANGED <<runs, mn_args, fs, output_dir_made, stdout, exit_status>>
    /\ UNCHANGED rdVars
    /\ UNCHANGED notMn

\* the loop is over: the "with" block closes the output file, the last line is
\* printed, the program ends
MainFinish ==
    /\ mn_pc = "loop"
    /\ use_case > Len(USE_CASES)
    /\ h5out' = [h5out EXCEPT !.open = FALSE]
    /\ stdout' = Append(stdout, [line |-> "Results written to", path |-> h5out.name])
    /\ exit_status' = 0
    /\ mn_pc' = "finished"
    /\ UNCHANGED <<runs, mn_args, fs, output_dir_made, use_case>>
    /\ UNCHANGED rdVars
    /\ UNCHANGED notMn

\* the use case raised: the exception leaves main through the "with" block,
\* which closes the output file as it stands
MainUseCaseRaised ==
    /\ mn_pc = "running"
    /\ rd_pc = "error"
    /\ h5out' = [h5out EXCEPT !.open = FALSE]
    /\ exit_status' = 1
    /\ mn_pc' = "crashed"
    /\ UNCHANGED <<runs, mn_args, fs, output_dir_made, stdout, use_case>>
    /\ UNCHANGED rdVars
    /\ UNCHANGED notMn

MnNext ==
    \/ MainInputMissing
    \/ MainOpenOutput
    \/ MainRunUseCase
    \/ MainPrintSummary
    \/ MainWriteResults
    \/ MainFinish
    \/ MainUseCaseRaised
    \/ SeqEnter
    \/ SeqDropCache
    \/ SeqOpen
    \/ SeqStartTimer
    \/ SeqRead
    \/ SeqStopTimer
    \/ SeqEndRepeat
    \/ SeqReturn
    \/ O3ReadShape
    \/ O3DropCache
    \/ O3Open
    \/ O3StartTimer
    \/ O3Read
    \/ O3StopTimer
    \/ O3Return
    \/ O4ReadShape
    \/ O4DropCache
    \/ O4Open
    \/ O4StartTimer
    \/ O4Read
    \/ O4StopTimer
    \/ O4EndLocation
    \/ O4Return

\* =========================================================================
\* The frame files: exp12_nwb_to_tiff.py and the data path of
\* exp12_write_ophys_tiff_to_nwb.py and exp12_write_ophys_tiff_to_unchunked_nwb.py
\* =========================================================================
BUFFER_FRAMES == 10000

\* ---- frames. A frame is known by the index it has in the source movie, its
\* shape as an array, and whether it is transposed relative to the movie.
Frame(src, shape) == [src |-> src, shape |-> shape, t |-> 0]
NoFrame == [src |-> -1, shape |-> <<0, 0>>, t |-> 0]
\* frame.T
Transpose(f) == [src |-> f.src, shape |-> <<f.shape[2], f.shape[1]>>, t |-> 1 - f.t]

\* what nwb_to_tiff writes to a file: data[frame_idx, :, :].T
ToTiffFrame(f) == Transpose(f)
\* what the writers store of a file: tifffile.imread(path).T
FromTiffFrame(f) == Transpose(f)

\* ---- file names and their order
S_frame_ == <<"f","r","a","m","e","_">>
S_tiff == <<".","t","i","f","f">>
\* f"{frame_idx:06d}"
Format06d(n) == ZeroPad(DigitsOf(n), 6)
\* f"frame_{frame_idx:06d}.tiff"
FrameFileName(n) == S_frame_ \o Format06d(n) \o S_tiff

\* ord(c) for the characters of these names
Ord(c) ==
    IF IsDigit(c) THEN 48 + DigitVal(c)
    ELSE IF c = "." THEN 46
    ELSE IF c = "_" THEN 95
    ELSE 96 + (CHOOSE q \in 1..26 : LowerChars[q] = c)

RECURSIVE StrLess(_, _)
\* a < b of str
StrLess(a, b) ==
    IF a = <<>> THEN b # <<>>
    ELSE IF b = <<>> THEN FALSE
    ELSE IF a[1] = b[1] THEN StrLess(Tail(a), Tail(b))
    ELSE Ord(a[1]) < Ord(b[1])

RECURSIVE SortedFiles(_)
\* sorted(tiff_dir.glob("*.tiff")): the files in the order of their names
SortedFiles(S) ==
    IF S = {} THEN <<>>
    ELSE LET first == CHOOSE f \in S : \A g \in S \ {f} : StrLess(f.name, g.name)
         IN <<first>> \o SortedFiles(S \ {first})

\* ---- numpy and h5py on shapes
\* np.stack(frames, axis=0) raises ValueError unless all shapes are equal
AllSameShape(frames) == \A a, b \in 1..Len(frames) : frames[a].shape = frames[b].shape
\* dataset[..., :, :] = value: h5py broadcasts an axis of length 1 and raises
\* TypeError for any other difference
Broadcastable(src, tgt) == \A d \in 1..2 : src[d] = 1 \/ src[d] = tgt[d]

EmptySlot == [filled |-> FALSE, frame |-> NoFrame]
Slot(f) == [filled |-> TRUE, frame |-> f]

\* ---- the runs
\* <<width, height>> of the series in the input file
MovieDims == <<3, 2>>
\* the source indices of the frames followed: whole short movies, and frames
\* on both sides of index 1000000 of a movie longer than that
FpIndexSeqs == {[k \in 1..n |-> k - 1] : n \in 0..MaxFpFrames}
                 \cup {<<999999, 1000000>>, <<100000, 100001, 1000000>>}
\* <<height, width>> of the frames of a directory filled by other means
FileShapes == {<<2, 3>>, <<3, 3>>, <<2, 1>>}
GivenDirs ==
    UNION {{ {[name |-> FrameFileName(k - 1), frame |-> Frame(k - 1, shapes[k])] : k \in 1..n} :
               shapes \in [1..n -> FileShapes]} : n \in 1..MaxFpFrames}
FpBuffers == (1..2) \cup {BUFFER_FRAMES}

FpInit ==
    /\ fp_writer \in {"tiff", "unchunked"}
    /\ fp_buffer_frames \in FpBuffers
    /\ fp_writer = "unchunked" => fp_buffer_frames = BUFFER_FRAMES
    /\ \/ /\ fp_pc = "to_tiff"
          /\ \E idx \in FpIndexSeqs : movie = [idx |-> idx, dims |-> MovieDims]
          /\ tiff_dir = {}
       \/ /\ fp_pc = "scan"
          /\ tiff_dir \in GivenDirs
          /\ movie = [idx |-> [k \in 1..Cardinality(tiff_dir) |-> k - 1], dims |-> MovieDims]
    /\ frame_idx = 0
    /\ fp_tiff_files = <<>>
    /\ fp_frame_dims = <<0, 0>>
    /\ fp_current_frame = 0
    /\ dataset = <<>>
    /\ fp_stats_file = FALSE
    /\ fp_err = NoError

FpIdle ==
    /\ fp_pc = "idle"
    /\ fp_writer = "tiff"
    /\ fp_buffer_frames = BUFFER_FRAMES
    /\ movie = [idx |-> <<>>, dims |-> MovieDims]
    /\ tiff_dir = {}
    /\ frame_idx = 0
    /\ fp_tiff_files = <<>>
    /\ fp_frame_dims = <<0, 0>>
    /\ fp_current_frame = 0
    /\ dataset = <<>>
    /\ fp_stats_file = FALSE
    /\ fp_err = NoError

FpRaise(e) ==
    /\ fp_pc' = "error"
    /\ fp_err' = e

\* exp12_nwb_to_tiff.py: one turn of "for frame_idx in range(n_frames)"
ToTiffExportFrame ==
    /\ fp_pc = "to_tiff"
    /\ frame_idx < Len(movie.idx)
    /\ tiff_dir' = tiff_dir \cup
          {[name |-> FrameFileName(movie.idx[frame_idx + 1]),
            frame |-> ToTiffFrame(Frame(movie.idx[frame_idx + 1], movie.dims))]}
    /\ frame_idx' = frame_idx + 1
    /\ UNCHANGED <<fp_pc, fp_writer, movie, fp_tiff_files, fp_frame_dims, fp_buffer_frames,
                   fp_current_frame, dataset, fp_stats_file, fp_err>>
    /\ UNCHANGED notFp

\* exp12_nwb_to_tiff.py: the loop is over; a writer is then run on the directory
ToTiffDone ==
    /\ fp_pc = "to_tiff"
    /\ frame_idx >= Len(movie.idx)
    /\ fp_pc' = "scan"
    /\ frame_idx' = 0
    /\ UNCHANGED <<fp_writer, movie, tiff_dir, fp_tiff_files, fp_frame_dims,
                   fp_buffer_frames, fp_current_frame, dataset, fp_stats_file, fp_err>>
    /\ UNCHANGED notFp

\* the writer lists and sorts the files and reads the first for the dimensions
FpScan ==
    /\ fp_pc = "scan"
    /\ fp_tiff_files' = SortedFiles(tiff_dir)
    /\ IF tiff_dir = {}
       THEN /\ FpRaise(IF fp_writer = "tiff"
                        THEN Error("ValueError", "No TIFF files found", <<>>, "tiff")
                        ELSE Error("SystemExit", "Error: No TIFF files found", <<1>>, "tiff"))
            /\ UNCHANGED fp_frame_dims
       ELSE /\ fp_frame_dims' = <<SortedFiles(tiff_dir)[1].frame.shape[2],
                                  SortedFiles(tiff_dir)[1].frame.shape[1]>>
            /\ fp_pc' = IF fp_writer = "tiff" THEN "validate" ELSE "create"
            /\ UNCHANGED fp_err
    /\ UNCHANGED <<fp_writer, movie, tiff_dir, frame_idx, fp_buffer_frames,
                   fp_current_frame, dataset, fp_stats_file>>
    /\ UNCHANGED notFp

\* exp12_write_ophys_tiff_to_nwb.py: the frame count and the first frame's
\* dimensions are compared with the original series; then the iterator is made
FpValidate ==
    /\ fp_pc = "validate"
    /\ IF Len(fp_tiff_files) # Len(movie.idx)
       THEN /\ FpRaise(Error("ValueError", "Number of TIFF files does not match", <<>>, "input"))
            /\ UNCHANGED <<dataset, fp_current_frame>>
       ELSE IF fp_frame_dims # movie.dims
       THEN /\ FpRaise(Error("ValueError", "TIFF frame dimensions do not match", <<>>, "input"))
            /\ UNCHANGED <<dataset, fp_current_frame>>
       ELSE /\ dataset' = [k \in 1..Len(fp_tiff_files) |-> EmptySlot]
            /\ fp_current_frame' = 0
            /\ fp_pc' = "export"
            /\ UNCHANGED fp_err
    /\ UNCHANGED <<fp_writer, movie, tiff_dir, frame_idx, fp_tiff_files, fp_frame_dims,
                   fp_buffer_frames, fp_stats_file>>
    /\ UNCHANGED notFp

\* the export takes the next buffer from TiffDataChunkIterator.__next__ and
\* writes it at its selection
FpNextChunk ==
    /\ fp_pc = "export"
    /\ fp_current_frame < Len(fp_tiff_files)
    /\ LET start_frame == fp_current_frame
           end_frame == EndFrame(start_frame, fp_buffer_frames, Len(fp_tiff_files))
           frames == [k \in 1..(end_frame - start_frame) |->
                         FromTiffFrame(fp_tiff_files[start_frame + k].frame)]
       IN IF ~AllSameShape(frames)
          THEN /\ FpRaise(Error("ValueError", "all input arrays must have the same shape",
                                <<>>, "stack"))
               /\ UNCHANGED <<dataset, fp_current_frame>>
          ELSE IF ~Broadcastable(frames[1].shape, fp_frame_dims)
          THEN /\ FpRaise(Error("TypeError", "Can't broadcast", <<>>, "write"))
               /\ fp_current_frame' = end_frame
               /\ UNCHANGED dataset
          ELSE /\ dataset' = [k \in 1..Len(dataset) |->
                                 IF start_frame < k /\ k <= end_frame
                                 THEN Slot(frames[k - start_frame]) ELSE dataset[k]]
               /\ fp_current_frame' = end_frame
               /\ UNCHANGED <<fp_pc, fp_err>>
    /\ UNCHANGED <<fp_writer, movie, tiff_dir, frame_idx, fp_tiff_files, fp_frame_dims,
                   fp_buffer_frames, fp_stats_file>>
    /\ UNCHANGED notFp

\* the iterator raises StopIteration, the export returns, and the run goes on
\* to its stats file
FpExportDone ==
    /\ fp_pc = "export"
    /\ fp_current_frame >= Len(fp_tiff_files)
    /\ fp_stats_file' = TRUE
    /\ fp_pc' = "done"
    /\ UNCHANGED <<fp_writer, movie, tiff_dir, frame_idx, fp_tiff_files, fp_frame_dims,
                   fp_buffer_frames, fp_current_frame, dataset, fp_err>>
    /\ UNCHANGED notFp

\* exp12_write_ophys_tiff_to_unchunked_nwb.py: the file is exported with an
\* empty dataset of shape (n_frames, frame_width, frame_height)
FpCreateEmpty ==
    /\ fp_pc = "create"
    /\ dataset' = [k \in 1..Len(fp_tiff_files) |-> EmptySlot]
    /\ frame_idx' = 0
    /\ fp_pc' = "fill"
    /\ UNCHANGED <<fp_writer, movie, tiff_dir, fp_tiff_files, fp_frame_dims,
                   fp_buffer_frames, fp_current_frame, fp_stats_file, fp_err>>
    /\ UNCHANGED notFp

\* one turn of "for frame_idx, tiff_path in enumerate(tiff_files)":
\* dataset[frame_idx, :, :] = frame.T
FpFillFrame ==
    /\ fp_pc = "fill"
    /\ frame_idx < Len(fp_tiff_files)
    /\ LET frame == FromTiffFrame(fp_tiff_files[frame_idx + 1].frame)
       IN IF Broadcastable(frame.shape, fp_frame_dims)
          THEN /\ dataset' = [dataset EXCEPT ![frame_idx + 1] = Slot(frame)]
               /\ frame_idx' = frame_idx + 1
               /\ UNCHANGED <<fp_pc, fp_err>>
          ELSE /\ FpRaise(Error("TypeError", "Can't broadcast", <<>>, "write"))
               /\ UNCHANGED <<dataset, frame_idx>>
    /\ UNCHANGED <<fp_writer, movie, tiff_dir, fp_tiff_files, fp_frame_dims,
                   fp_buffer_frames, fp_current_frame, fp_stats_file>>
    /\ UNCHANGED notFp

\* the fill loop is over: the stats file is written
FpFillDone ==
    /\ fp_pc = "fill"
    /\ frame_idx >= Len(fp_tiff_files)
    /\ fp_stats_file' = TRUE
    /\ fp_pc' = "done"
    /\ UNCHANGED <<fp_writer, movie, tiff_dir, frame_idx, fp_tiff_files, fp_frame_dims,
                   fp_buffer_frames, fp_current_frame, dataset, fp_err>>
    /\ UNCHANGED notFp

FpNext ==
    \/ ToTiffExportFrame
    \/ ToTiffDone
    \/ FpScan
    \/ FpValidate
    \/ FpNextChunk
    \/ FpExportDone
    \/ FpCreateEmpty
    \/ FpFillFrame
    \/ FpFillDone

\* =========================================================================
\* The integrity scan: exp12_check_nwb_files.py
\* =========================================================================
RECURSIVE Contains(_, _)
\* "sub in s" of str
Contains(s, sub) ==
    IF Len(s) < Len(sub) THEN FALSE
    ELSE SubSeq(s, 1, Len(sub)) = sub \/ Contains(Tail(s), sub)

HasSuffix(s, suf) == Len(s) >= Len(suf) /\ SubSeq(s, Len(s) - Len(suf) + 1, Len(s)) = suf

\* ---- delete_errors
E_missing_version ==
    <<"M","i","s","s","i","n","g"," ","N","W","B"," ","v","e","r","s","i","o","n"," ","i",
      "n"," ","f","i","l","e","."," ","T","h","e"," ","f","i","l","e"," ","i","s"," ","n",
      "o","t"," ","a"," ","v","a","l","i","d"," ","N","W","B"," ","f","i","l","e",".">>
E_bad_header ==
    <<"b","a","d"," ","o","b","j","e","c","t"," ","h","e","a","d","e","r"," ","v","e","r",
      "s","i","o","n"," ","n","u","m","b","e","r">>
delete_errors == <<E_missing_version, E_bad_header>>

\* any(err in error_msg for err in delete_errors)
AnyDeleteError(error_msg) ==
    \E k \in 1..Len(delete_errors) : Contains(error_msg, delete_errors[k])

\* ---- what opening a file can give: "" when io.read() returns, else str(e)
OpensOk == <<>>
\* h5py's text around the second fingerprint
Msg_unable_bad_header ==
    <<"U","n","a","b","l","e"," ","t","o"," ","o","p","e","n"," ","f","i","l","e"," ","(",
      "b","a","d"," ","o","b","j","e","c","t"," ","h","e","a","d","e","r"," ","v","e","r",
      "s","i","o","n"," ","n","u","m","b","e","r",")">>
\* the second fingerprint with another capital
Msg_Bad_header ==
    <<"B","a","d"," ","o","b","j","e","c","t"," ","h","e","a","d","e","r"," ","v","e","r",
      "s","i","o","n"," ","n","u","m","b","e","r">>
\* a failure that is no known corruption
Msg_truncated ==
    <<"U","n","a","b","l","e"," ","t","o"," ","o","p","e","n"," ","f","i","l","e"," ","(",
      "t","r","u","n","c","a","t","e","d"," ","f","i","l","e",")">>
ErrorTexts == {E_missing_version, Msg_unable_bad_header, Msg_Bad_header, Msg_truncated}

\* ---- the directories
S_txt == <<".","t","x","t">>
Stems == <<"a", "b", "c", "d", "e">>
CkNames == {<<Stems[k]>> \o S_nwb : k \in 1..MaxCkFiles}
OpenResults == {OpensOk} \cup ErrorTexts
\* a file: its name, what opening it gives, and whether unlink() is refused
FileEntry(name, opens, locked) == [name |-> name, opens |-> opens, locked |-> locked]
\* a stats file next to the .nwb files
OtherFile == FileEntry(<<"a">> \o S_txt, Msg_truncated, FALSE)
Directories ==
    UNION {{ {OtherFile} \cup {FileEntry(n, f[n][1], f[n][2]) : n \in present} :
               f \in [present -> OpenResults \X BOOLEAN]} : present \in SUBSET CkNames}

RECURSIVE SortedNames(_)
\* sorted(directory.glob("*.nwb")) once the names are collected
SortedNames(S) ==
    IF S = {} THEN <<>>
    ELSE LET first == CHOOSE a \in S : \A b \in S \ {a} : StrLess(a, b)
         IN <<first>> \o SortedNames(S \ {first})

\* directory.glob("*.nwb")
GlobNwb(dir) == {f.name : f \in {g \in dir : HasSuffix(g.name, S_nwb)}}
FileNamed(dir, name) == CHOOSE f \in dir : f.name = name

Line(kind, name, text) == [kind |-> kind, name |-> name, text |-> text]

CkInit ==
    /\ ck_pc = "glob"
    /\ directory \in Directories
    /\ nwb_files = <<>>
    /\ ck_pos = 0
    /\ opened = <<>>
    /\ failed_files = <<>>
    /\ deleted_files = <<>>
    /\ ck_out = <<>>
    /\ ck_err = NoError

CkIdle ==
    /\ ck_pc = "idle"
    /\ directory = {}
    /\ nwb_files = <<>>
    /\ ck_pos = 0
    /\ opened = <<>>
    /\ failed_files = <<>>
    /\ deleted_files = <<>>
    /\ ck_out = <<>>
    /\ ck_err = NoError

\* nwb_files = sorted(directory.glob("*.nwb")); exit 0 when there is none
CkGlob ==
    /\ ck_pc = "glob"
    /\ nwb_files' = SortedNames(GlobNwb(directory))
    /\ IF GlobNwb(directory) = {}
       THEN /\ ck_out' = Append(ck_out, Line("No .nwb files found", <<>>, <<>>))
            /\ ck_err' = Error("SystemExit", "", <<0>>, "glob")
            /\ ck_pc' = "exit"
       ELSE /\ ck_pc' = "loop"
            /\ UNCHANGED <<ck_out, ck_err>>
    /\ UNCHANGED <<directory, ck_pos, opened, failed_files, deleted_files>>
    /\ UNCHANGED notCk

\* one turn of "for filepath in nwb_files" in which io.read() returns
CkOpenOk ==
    /\ ck_pc = "loop"
    /\ ck_pos < Len(nwb_files)
    /\ LET filepath == nwb_files[ck_pos + 1]
       IN /\ FileNamed(directory, filepath).opens = OpensOk
          /\ opened' = Append(opened, filepath)
    /\ ck_pos' = ck_pos + 1
    /\ UNCHANGED <<ck_pc, directory, nwb_files, failed_files, deleted_files, ck_out, ck_err>>
    /\ UNCHANGED notCk

\* one turn in which opening raises: the failure is recorded and printed, and
\* the file is unlinked when the text holds one of delete_errors; an unlink()
\* that raises leaves the handler and main
CkOpenFailed ==
    /\ ck_pc = "loop"
    /\ ck_pos < Len(nwb_files)
    /\ LET filepath == nwb_files[ck_pos + 1]
           file == FileNamed(directory, filepath)
           error_msg == file.opens
           printed == Append(ck_out, Line("FAILED", filepath, error_msg))
       IN /\ error_msg # OpensOk
          /\ opened' = Append(opened, filepath)
          /\ failed_files' = Append(failed_files, <<filepath, error_msg>>)
          /\ IF ~AnyDeleteError(error_msg)
             THEN /\ ck_out' = printed
                  /\ ck_pos' = ck_pos + 1
                  /\ UNCHANGED <<ck_pc, directory, deleted_files, ck_err>>
             ELSE IF file.locked
             THEN /\ ck_out' = printed
                  /\ ck_err' = Error("PermissionError", "", <<>>, "unlink")
                  /\ ck_pc' = "error"
                  /\ UNCHANGED <<directory, deleted_files, ck_pos>>
             ELSE /\ directory' = directory \ {file}
                  /\ deleted_files' = Append(deleted_files, filepath)
                  /\ ck_out' = Append(printed, Line("DELETED", filepath, <<>>))
                  /\ ck_pos' = ck_pos + 1
                  /\ UNCHANGED <<ck_pc, ck_err>>
    /\ UNCHANGED nwb_files
    /\ UNCHANGED notCk

\* [(f, e) for f, e in failed_files if f not in deleted_files]
RemainingFailures(failed, deleted) ==
    SelectSeq(failed, LAMBDA fe : \A k \in 1..Len(deleted) : deleted[k] # fe[1])

\* the lines printed after the loop
SummaryLines(n, failed, deleted) ==
    LET remaining == RemainingFailures(failed, deleted)
    IN <<Line("Checked", <<>>, n)>>
       \o (IF deleted # <<>>
           THEN <<Line("Deleted", <<>>, Len(deleted))>>
                \o [k \in 1..Len(deleted) |-> Line("deleted file", deleted[k], <<>>)]
           ELSE <<>>)
       \o (IF failed # <<>> /\ remaining # <<>>
           THEN <<Line("Failed to open (not deleted)", <<>>, Len(remaining))>>
                \o [k \in 1..Len(remaining) |->
                       Line("failed file", remaining[k][1], remaining[k][2])]
           ELSE <<>>)
       \o (IF failed = <<>>
           THEN <<Line("All files opened successfully", <<>>, <<>>)>>
           ELSE <<>>)

\* the loop is over: the summary is printed
CkSummary ==
    /\ ck_pc = "loop"
    /\ ck_pos >= Len(nwb_files)
    /\ ck_out' = ck_out \o SummaryLines(Len(nwb_files), failed_files, deleted_files)
    /\ ck_pc' = "summarised"
    /\ UNCHANGED <<directory, nwb_files, ck_pos, opened, failed_files, deleted_files, ck_err>>
    /\ UNCHANGED notCk

CkNext ==
    \/ CkGlob
    \/ CkOpenOk
    \/ CkOpenFailed
    \/ CkSummary

\* =========================================================================
\* Specifications
\* =========================================================================
InitIter == IterInit /\ WrIdle /\ RdIdle /\ MnIdle /\ FpIdle /\ CkIdle
SpecIter == InitIter /\ [][IterNext]_vars

InitWriter == WrInit /\ IterIdle /\ RdIdle /\ MnIdle /\ FpIdle /\ CkIdle
SpecWriter == InitWriter /\ [][WrNext]_vars

InitRead == RdInit /\ IterIdle /\ WrIdle /\ MnIdle /\ FpIdle /\ CkIdle
SpecRead == InitRead /\ [][RdNext]_vars

InitMain == MnInit /\ IterIdle /\ WrIdle /\ FpIdle /\ CkIdle
SpecMain == InitMain /\ [][MnNext]_vars

InitFrames == FpInit /\ IterIdle /\ WrIdle /\ RdIdle /\ MnIdle /\ CkIdle
SpecFrames == InitFrames /\ [][FpNext]_vars

InitCheck == CkInit /\ IterIdle /\ WrIdle /\ RdIdle /\ MnIdle /\ FpIdle
SpecCheck == InitCheck /\ [][CkNext]_vars

\* =========================================================================
\* Claims
\* =========================================================================

\* ------------------------------------------------------------------ C1
Extent(c) == c.selection.stop - c.selection.start

ChunkExtents == [j \in 1..Len(chunks) |-> Extent(chunks[j])]

\* C1: iterating TiffDataChunkIterator over N frames with buffer size B yields,
\* at every moment, buffers whose j-th selection (0-based) is
\* [j*B, min((j+1)*B, N)), each holding as many frames as its selection and at
\* most B; the ranges are increasing, disjoint and gap-free; once the iterator
\* is exhausted there are exactly ceil(N/B) buffers, every one of B frames
\* except the last (N mod B frames, or B when B divides N), summing to N.
C1_IterCoversExactly ==
    LET N == Len(tiff_files)
        B == buffer_frames
    IN /\ \A j \in 1..Len(chunks) :
            /\ chunks[j].selection.start = (j - 1) * B
            /\ chunks[j].selection.stop = Min(j * B, N)
            /\ Len(chunks[j].data) = Extent(chunks[j])
            /\ Extent(chunks[j]) >= 1
            /\ Extent(chunks[j]) <= B
            /\ \A k \in 1..Len(chunks[j].data) :
                   chunks[j].data[k] = chunks[j].selection.start + k - 1
       /\ \A j \in 1..(Len(chunks) - 1) :
            /\ chunks[j].selection.stop = chunks[j + 1].selection.start
            /\ chunks[j].selection.start < chunks[j + 1].selection.start
            /\ Extent(chunks[j]) = B
       /\ SumSeq(ChunkExtents) = current_frame
       /\ exhausted =>
            /\ Len(chunks) = CeilDiv(N, B)
            /\ SumSeq(ChunkExtents) = N
            /\ Len(chunks) > 0 =>
                 Extent(chunks[Len(chunks)]) = (IF N % B = 0 THEN B ELSE N % B)

\* A run that ended with a short last buffer after at least one full buffer.
C1_Witness ==
    /\ exhausted
    /\ Len(chunks) >= 3
    /\ Extent(chunks[Len(chunks)]) < buffer_frames
    /\ Extent(chunks[1]) = buffer_frames

\* ------------------------------------------------- the writers' bookkeeping
InRange == config_number \in 0..(Len(config_file) - 1)

\* main has reached the line numbered config_number and acted on it
Selected == InRange /\ wr_pc \notin {"start", "loop"}

SelectedFields == Split(Strip(config_file[config_number + 1]))

\* the number of parameter fields of the selected row: all of its fields for
\* exp12_write_ophys.py, those after the leading index for the tiff writer
ParamCount ==
    IF writer = "h5" THEN Len(SelectedFields)
    ELSE IF SelectedFields = <<>> THEN 0 ELSE Len(SelectedFields) - 1

ErrorAt(steps) == wr_pc = "error" /\ wr_err.at \in steps

\* process_config has computed chunk sizes, codec and codec options
PastParse ==
    /\ InRange
    /\ \/ wr_pc \in {"tiff_scan", "open_input", "build", "export", "stat",
                     "after_loop", "done"}
       \/ ErrorAt({"tiff", "input", "export"})

\* process_config has computed the chunk sizes
PastChunk == PastParse \/ (InRange /\ ErrorAt({"compr", "comp_op"}))

NothingWritten == output_file = "absent" /\ ~stats_file

HasPrefix(s, pre) == Len(s) >= Len(pre) /\ SubSeq(s, 1, Len(pre)) = pre

T_blosc_ == <<"b","l","o","s","c","-">>

\* ------------------------------------------------------------------ C2
\* the positions at which a unit's drop has been done and its handle is in use
RdInUnit == {"seq_open", "seq_batch", "seq_read", "seq_stop",
             "o3_open", "o3_start", "o3_read", "o3_stop",
             "o4_open", "o4_batch", "o4_read", "o4_stop"}

\* C2: in the sequential scan, the random single frame and the spatial patch
\* alike, every read of data is timed and goes through an open handle that was
\* opened directly after the latest cache drop, which is the drop of the
\* read's own unit of work (repeat, sample or location); there is one drop per
\* unit, in unit order; no drop happens while the timer runs or while a handle
\* is open; and between a drop and the open that follows it no handle is open,
\* so nothing can be read through an earlier one.
C2_ColdReadDiscipline ==
    /\ \A k \in 1..Len(read_log) :
          /\ read_log[k].timed
          /\ read_log[k].handle_open
          /\ read_log[k].after_drop >= 1
          /\ read_log[k].after_drop = read_log[k].drops
          /\ read_log[k].drops = read_log[k].unit + 1
    /\ \A k \in 1..Len(drop_log) :
          /\ ~drop_log[k].during_timing
          /\ ~drop_log[k].handle_open
          /\ drop_log[k].unit = k - 1
    /\ Len(drop_log) = drops
    /\ drops = (IF rd_pc \in RdInUnit THEN unit + 1 ELSE unit)
    /\ timing => io.open
    /\ last_op = "drop" => (~io.open /\ ~timing /\ page_cache = "dropped")
    /\ io.open => io.after_drop = drops

\* a sequential scan has finished its second repeat: two drops, each followed
\* by an open and by the reads of its repeat
C2_Witness ==
    /\ rd_fn = "seq"
    /\ rd_pc = "done"
    /\ n_repeats = 2
    /\ Len(drop_log) = 2
    /\ Len(read_log) >= 2
    /\ read_log[Len(read_log)].unit = 1

ChunkStepDone == PastChunk \/ (InRange /\ ErrorAt({"chunk"}))

AllPiecesInt(p0) == \A p \in 1..Len(SplitComma(p0)) : IsInt(SplitComma(p0)[p])

\* C4 (as amended): once process_config has resolved the chunk-shape field of a
\* five-field row: "true" in any letter case gives True (the store chooses);
\* "none" in any letter case gives None in exp12_write_ophys.py only; every
\* other value, "auto" included and in the tiff writer "none" too, is split at
\* commas and each piece converted with int(): the tuple of those integers
\* (whatever their sign or number) when all convert, a ValueError otherwise.
C4_ChunkShapeResolution ==
    ChunkStepDone =>
        LET p0 == params[1]
            special == Lower(p0) = T_true \/ (writer = "h5" /\ Lower(p0) = T_none)
        IN /\ Lower(p0) = T_true => PastChunk /\ chunk_shape = PyTrue
           /\ (writer = "h5" /\ Lower(p0) = T_none) => PastChunk /\ chunk_shape = PyNone
           /\ (writer = "tiff" /\ Lower(p0) = T_none) => ErrorAt({"chunk"})
           /\ p0 = T_auto => ErrorAt({"chunk"}) /\ wr_err.kind = "ValueError"
           /\ p0 = T_64_128_128 => PastChunk /\ chunk_shape = PyTuple(<<64, 128, 128>>)
           /\ p0 = T_0_8 => PastChunk /\ chunk_shape = PyTuple(<<0, 8>>)
           /\ (~special /\ AllPiecesInt(p0)) =>
                 /\ PastChunk
                 /\ chunk_shape.t = "tuple"
                 /\ Len(chunk_shape.v) = Len(SplitComma(p0))
                 /\ \A p \in 1..Len(chunk_shape.v) :
                        chunk_shape.v[p] = IntOf(SplitComma(p0)[p])
           /\ (~special /\ ~AllPiecesInt(p0)) =>
                 /\ ErrorAt({"chunk"})
                 /\ wr_err.kind = "ValueError"
                 /\ chunk_shape = PyUnset
                 /\ ~input_opened
                 /\ NothingWritten

\* a row whose chunk-shape field is "auto" has been rejected
C4_Witness ==
    /\ InRange
    /\ ErrorAt({"chunk"})
    /\ params[1] = T_auto
    /\ writer = "h5"

\* C4 as stated: "none" gives None, "true" and "auto" give True, anything else
\* a tuple of positive integers, in both writers.
C4_AutoAndNone ==
    ChunkStepDone =>
        LET p0 == params[1]
        IN /\ p0 = T_none => PastChunk /\ chunk_shape = PyNone
           /\ p0 \in {T_true, T_auto} => PastChunk /\ chunk_shape = PyTrue
           /\ p0 \notin {T_none, T_true, T_auto} =>
                 /\ PastChunk
                 /\ chunk_shape.t = "tuple"
                 /\ \A p \in 1..Len(chunk_shape.v) : chunk_shape.v[p] > 0

\* ------------------------------------------------------------------ C5
\* C5: whenever the chunk-shape field of the row is "none", the keyword
\* arguments given to H5DataIO hold neither a compression codec nor
\* compression options, whatever the other fields are.
C5_NoneNeverCompressed ==
    (data_io_kwargs.built /\ params[1] = T_none) =>
        /\ data_io_kwargs.chunks = PyNone
        /\ data_io_kwargs.compression = ComprAbsent
        /\ data_io_kwargs.compression_opts = Absent

\* ------------------------------------------------------------------ C6
\* C6 (as amended): in the keyword arguments given to H5DataIO, when the codec
\* name field is the literal "NA" no codec identifier and no codec options are
\* handed over, whatever the codec-id field holds; otherwise, when the codec-id
\* field is "NA" in any letter case the identifier is the codec name itself,
\* and when it is anything else it is an integer and that integer is the
\* identifier, whatever the name. The row "64,128,128 gzip NA 0 4" gives chunk
\* shape (64,128,128), the name "gzip" and the single parameter 4.
C6_CodecIdentifier ==
    data_io_kwargs.built =>
        LET nm == params[2]
            id == params[3]
        IN /\ nm = T_NA =>
                 /\ data_io_kwargs.compression = ComprAbsent
                 /\ data_io_kwargs.compression_opts = Absent
                 /\ ~data_io_kwargs.allow_plugin_filters
           /\ (nm # T_NA /\ Lower(id) = T_na) =>
                 data_io_kwargs.compression = ComprStr(nm)
           /\ (nm # T_NA /\ Lower(id) # T_na) =>
                 /\ IsInt(id)
                 /\ data_io_kwargs.compression = ComprInt(IntOf(id))
           /\ params = SampleRow =>
                 /\ data_io_kwargs.chunks = PyTuple(<<64, 128, 128>>)
                 /\ data_io_kwargs.compression = ComprStr(T_gzip)
                 /\ data_io_kwargs.compression_opts = PyInt(4)

\* the spec's scenario row has reached H5DataIO
C6_Witness ==
    /\ data_io_kwargs.built
    /\ params = SampleRow
    /\ data_io_kwargs.compression = ComprStr(T_gzip)

\* C6 as stated: with codec-id "NA" the codec name is the identifier handed to
\* the store, otherwise the integer of the codec-id field is.
C6_NameOrId ==
    data_io_kwargs.built =>
        LET nm == params[2]
            id == params[3]
        IN /\ id = T_NA => data_io_kwargs.compression = ComprStr(nm)
           /\ id # T_NA => /\ IsInt(id)
                           /\ data_io_kwargs.compression = ComprInt(IntOf(id))

\* ------------------------------------------------------------------ C7
\* the error is a complaint about the row's format that names the line
CitesLine(e) ==
    /\ e.kind = "AssertionError"
    /\ \/ e.msg = "requires exactly 5 parameters" /\ e.num[1] = config_number
       \/ e.msg = "configno does not match line number" /\ e.num[2] = config_number

\* C7: a selected row whose number of parameter fields is not 5 ends the run
\* in a configuration-format error that cites the line number, before the
\* input file is opened and with no output file and no stats file written.
C7_WrongFieldCountCitesLine ==
    (Selected /\ ParamCount # 5) =>
        /\ wr_pc \in {"process_config", "error"}
        /\ wr_pc = "error" => CitesLine(wr_err)
        /\ ~input_opened
        /\ NothingWritten

\* ------------------------------------------------------------------ C8
\* C8: when config_number has no line in the table (negative, or not below the
\* line count) the run ends in the error that names the config number, with no
\* output file and no stats file; and a stats file is written only by a run
\* whose export returned.
C8_MissingConfigNoStats ==
    /\ ~InRange =>
          /\ wr_pc \in {"start", "loop", "after_loop", "error"}
          /\ wr_pc = "error" =>
                wr_err = Error("ValueError", "Config number not found",
                               <<config_number>>, "lookup")
          /\ ~input_opened
          /\ NothingWritten
    /\ stats_file => exported /\ wr_pc = "done" /\ InRange

\* a run over a non-empty table that lacks the requested line has ended
C8_Witness ==
    /\ Len(config_file) >= 1
    /\ config_number >= Len(config_file)
    /\ wr_pc = "error"
    /\ wr_err.msg = "Config number not found"

\* ------------------------------------------------------------------ C9
FirstIsLineNumber ==
    /\ SelectedFields # <<>>
    /\ IsInt(SelectedFields[1])
    /\ IntOf(SelectedFields[1]) = config_number

\* C9 (as amended): the row handled is the one at the 0-based line number
\* config_number. The tiff writer requires a leading index: the row is
\* processed only if its first field is an integer equal to the line number,
\* otherwise the run fails at once with nothing written, so a bare five-field
\* row is never accepted there. exp12_write_ophys.py takes no leading index:
\* all fields of the line are the parameters, a bare five-field row is accepted
\* with its line number as identity, and a row with an index in front fails
\* the field-count assertion with nothing written.
C9_RowIdentityPerWriter ==
    /\ (writer = "tiff" /\ Selected) =>
          IF FirstIsLineNumber
          THEN /\ ~ErrorAt({"select"})
               /\ params = Tail(SelectedFields)
          ELSE /\ ErrorAt({"select"})
               /\ ~input_opened
               /\ NothingWritten
    /\ (writer = "tiff" /\ Selected /\ Len(SelectedFields) = 5) =>
          /\ wr_pc \in {"process_config", "error"}
          /\ wr_pc = "error" => wr_err.at \in {"select", "arity"}
    /\ (writer = "h5" /\ Selected) =>
          /\ params = SelectedFields
          /\ Len(SelectedFields) = 5 => ~ErrorAt({"select", "arity"})
          /\ Len(SelectedFields) # 5 =>
                /\ wr_pc \in {"process_config", "error"}
                /\ wr_pc = "error" => wr_err.at = "arity"
                /\ ~input_opened
                /\ NothingWritten

\* the tiff writer has completed the row of line 1, which carries index 1
C9_Witness ==
    /\ writer = "tiff"
    /\ config_number = 1
    /\ wr_pc = "done"
    /\ FirstIsLineNumber

\* C9 as stated: a row with a leading index is processed only if the index is
\* the line number, and a row of exactly 5 fields with no index is accepted.
C9_OptionalIndex ==
    /\ (Selected /\ Len(SelectedFields) = 6 /\ IsInt(SelectedFields[1])
          /\ IntOf(SelectedFields[1]) # config_number) =>
          /\ wr_pc \in {"process_config", "error"}
          /\ NothingWritten
    /\ (Selected /\ Len(SelectedFields) = 5 /\ wr_pc # "process_config") =>
          ~ErrorAt({"select", "arity"})

\* ------------------------------------------------------------------ C10
\* C10: when benchmark_sequential_batches returns for N >= 1 frames, batch
\* size S >= 1 and R >= 1 repeats, batch_sizes has ceil(N/S) entries, every one
\* S except the last, which is N mod S when S does not divide N; they sum to N;
\* batch_times has R rows of ceil(N/S) entries; repeat_total_times has R
\* entries, each the sum of its row; and N = 1205, S = 500 gives [500, 500, 205].
C10_SequentialBatchExtents ==
    (rd_fn = "seq" /\ rd_pc = "done" /\ data_shape[1] >= 1) =>
        LET N == data_shape[1]
            S == batch_size
            R == n_repeats
            nb == CeilDiv(N, S)
        IN /\ result.keys = {"repeat_total_times", "batch_times", "batch_sizes"}
           /\ Len(result.batch_sizes) = nb
           /\ \A k \in 1..(nb - 1) : result.batch_sizes[k] = S
           /\ result.batch_sizes[nb] = (IF N % S = 0 THEN S ELSE N % S)
           /\ SumSeq(result.batch_sizes) = N
           /\ Len(result.batch_times) = R
           /\ \A r \in 1..R : Len(result.batch_times[r]) = nb
           /\ Len(result.repeat_total_times) = R
           /\ \A r \in 1..R :
                 result.repeat_total_times[r] = SumSeq(result.batch_times[r])
           /\ (N = 1205 /\ S = 500) => result.batch_sizes = <<500, 500, 205>>

\* the scan of 1205 frames in batches of 500 has returned
C10_Witness ==
    /\ rd_fn = "seq"
    /\ rd_pc = "done"
    /\ data_shape[1] = 1205
    /\ batch_size = O1_BATCH_SIZE
    /\ result.batch_sizes = <<500, 500, 205>>

\* ------------------------------------------------------------------ C11
\* C11: in benchmark_o4 every window read, [x0, x0+16) x [y0, y0+16), lies
\* inside the stored array, whatever the array's frame dimensions are; a
\* dimension below the patch size gives origin 0 on that axis, and the call
\* raises no error.
C11_PatchWithinBounds ==
    rd_fn = "o4" =>
        /\ rd_pc # "error"
        /\ \A k \in 1..Len(read_log) :
              /\ 0 <= read_log[k].sel[3]
              /\ read_log[k].sel[4] <= data_shape[2]
              /\ 0 <= read_log[k].sel[5]
              /\ read_log[k].sel[6] <= data_shape[3]
        /\ (rd_pc = "o4_loc" /\ data_shape[2] < PATCH_SIZE) =>
              \A k \in 1..N_LOCATIONS : xy_starts[2][k] = 0
        /\ (rd_pc = "o4_loc" /\ data_shape[3] < PATCH_SIZE) =>
              \A k \in 1..N_LOCATIONS : xy_starts[1][k] = 0

\* ------------------------------------------------------------------ C12
SummaryStatistics == {"sum", "mean", "std", "min", "max"}

\* C12: every group written to the output file holds each array of its use
\* case's result as a dataset and, besides, the attributes sum, mean, std, min
\* and max of its timing samples.
C12_GroupsHoldSummaryAttrs ==
    \A k \in 1..Len(h5out.groups) :
        /\ h5out.groups[k].datasets = h5out.groups[k].data.keys
        /\ SummaryStatistics \subseteq h5out.groups[k].attrs

\* ------------------------------------------------------------------ C13
IsHeading(r) == r.line = "heading"
IsSummary(r) == r.line = "summary"
Headings == SelectSeq(stdout, IsHeading)
Summaries == SelectSeq(stdout, IsSummary)

\* C13: in a run whose input file exists, the use cases are started in the
\* order o1, o2, o3, o4, each at most once; a use case is started only after
\* the summary of the one before it was printed and its group written; the
\* k-th group carries the k-th registered group name and the k-th use case's
\* result, the names are pairwise distinct, and all groups are in the one
\* output file named for the configuration; a run that finishes has run all
\* four exactly once.
C13_RegistryOrder ==
    LET h == Len(Headings)
        sm == Len(Summaries)
        g == Len(h5out.groups)
    IN /\ h <= Len(USE_CASES)
       /\ \A k \in 1..h : Headings[k].use_case = USE_CASES[k].name
       /\ \A k \in 1..sm : Summaries[k].summary.use_case = USE_CASES[k].name
       /\ \A k \in 1..g :
             /\ h5out.groups[k].name = USE_CASES[k].group_name
             /\ h5out.groups[k].data.keys # {}
             /\ ("read_times" \in h5out.groups[k].data.keys) = (USE_CASES[k].name = "o3")
             /\ ("xy_locations" \in h5out.groups[k].data.keys) = (USE_CASES[k].name = "o4")
       /\ \A k, l \in 1..g : k # l => h5out.groups[k].name # h5out.groups[l].name
       /\ g <= sm
       /\ sm <= h
       /\ h <= g + 1
       /\ mn_pc = "running" => (h = use_case /\ sm = g /\ g = use_case - 1)
       /\ mn_pc = "write" => (h = use_case /\ sm = use_case /\ g = use_case - 1)
       /\ mn_pc = "loop" => (h = use_case - 1 /\ sm = h /\ g = h)
       /\ g > 0 =>
             /\ h5out.exists
             /\ h5out.name = ReadOutputName(mn_args.output_label, mn_args.config_number)
       /\ mn_pc = "finished" =>
             /\ h = Len(USE_CASES)
             /\ sm = Len(USE_CASES)
             /\ g = Len(USE_CASES)
             /\ ~h5out.open
             /\ exit_status = 0

\* a run has finished with four groups in its output file
C13_Witness ==
    /\ mn_pc = "finished"
    /\ Len(h5out.groups) = 4
    /\ h5out.groups[4].name = "o4_spatial_patch"

\* ------------------------------------------------------------------ C14
\* C14: when the input file named for the configuration does not exist, the
\* run prints the not-found line with that path and nothing else, exits with
\* status 1, calls no use case, drops no cache, and neither makes the output
\* directory nor creates the output file.
C14_MissingInputFailsFast ==
    (mn_pc \notin {"idle", "start"}
       /\ ReadInputName(mn_args.output_label, mn_args.config_number) \notin fs) =>
        /\ mn_pc = "exit"
        /\ exit_status = 1
        /\ stdout = << [line |-> "Input file not found",
                        path |-> ReadInputName(mn_args.output_label,
                                               mn_args.config_number)] >>
        /\ rd_pc = "idle"
        /\ rd_fn = "none"
        /\ use_case = 0
        /\ drops = 0
        /\ drop_log = <<>>
        /\ read_log = <<>>
        /\ ~output_dir_made
        /\ ~h5out.exists

\* a run has ended on the missing input file of configuration 70
C14_Witness ==
    /\ mn_pc = "exit"
    /\ mn_args.config_number = 70
    /\ fs # {}
    /\ exit_status = 1

\* ------------------------------------------------------------------ C15
O3Drawn == {"o3_sample", "o3_open", "o3_start", "o3_read", "o3_stop", "done"}

\* C15: once benchmark_o3 has drawn, frame_indices holds exactly 50 indices,
\* each in [0, N), and is the stream of the generator seeded with RANDOM_SEED:
\* a function of N alone, whatever ran before and whatever the clock shows, so
\* that any two runs over the same N agree; the frames read so far are those
\* indices in drawn order, one per sample; and the returned frame_indices are
\* the 50 indices read.
C15_SeededFrameIndices ==
    (rd_fn = "o3" /\ rd_pc \in O3Drawn) =>
        LET N == data_shape[1]
        IN /\ Len(frame_indices) = N_SAMPLES
           /\ \A k \in 1..N_SAMPLES : 0 <= frame_indices[k] /\ frame_indices[k] < N
           /\ frame_indices = RngIntegers(RANDOM_SEED, 0, N, N_SAMPLES).vals
           /\ Len(read_log) = (IF rd_pc = "o3_stop" THEN unit + 1 ELSE unit)
           /\ \A k \in 1..Len(read_log) :
                 /\ read_log[k].unit = k - 1
                 /\ read_log[k].sel[1] = frame_indices[k]
                 /\ read_log[k].sel[2] = frame_indices[k] + 1
           /\ rd_pc = "done" =>
                 /\ Len(read_log) = N_SAMPLES
                 /\ result.frame_indices = [k \in 1..N_SAMPLES |-> read_log[k].sel[1]]
                 /\ Len(result.read_times) = N_SAMPLES

\* benchmark_o3 has returned in a run where o1 and o2 ran before it, on a
\* movie long enough for the indices to differ
C15_Witness ==
    /\ rd_fn = "o3"
    /\ rd_pc = "done"
    /\ mn_pc = "running"
    /\ use_case = 3
    /\ data_shape[1] = 1205
    /\ \E k \in 1..N_SAMPLES : result.frame_indices[k] # result.frame_indices[1]

\* ------------------------------------------------------------------ C19

\* C19: the input name the reader resolves and the output names of both
\* writers embed the label and the zero-padded number (7 under "ophys1" gives
\* "ophys1" and "007"); different numbers below 1000 give different names; and
\* a reader started with the label and number a writer was run with finds that
\* writer's file.
C19_ReaderResolvesWriterFile ==
    /\ Contains(ReadInputName(S_ophys1, 7), S_ophys1)
    /\ Contains(ReadInputName(S_ophys1, 7), <<"0", "0", "7">>)
    /\ \A m, n \in {0, 7, 70, 700, 999} :
          m # n => /\ ReadInputName(S_ophys1, m) # ReadInputName(S_ophys1, n)
                   /\ WriteH5OutputName(S_ophys1, m) # WriteH5OutputName(S_ophys1, n)
                   /\ WriteTiffOutputName(S_ophys1, m) # WriteTiffOutputName(S_ophys1, n)
    /\ \A w \in {"h5", "tiff"} :
          (mn_pc \notin {"idle", "start"}
             /\ fs = {WriterOutputName(w, mn_args.output_label, mn_args.config_number)}) =>
              /\ mn_pc # "exit"
              /\ ReadInputName(mn_args.output_label, mn_args.config_number) \in fs

\* ------------------------------------------------------------------ C16
\* BuildDataIO has run
BuiltSeries == data_io_kwargs.built

\* C16: once the new series is built, every field of it other than the data
\* equals the original's (name, description, starting time, rate, unit,
\* conversion and offset, resolution, comments, dimension, imaging plane,
\* timestamps); the acquisition group has the names it had, its other members
\* and the rest of the file are as read; and a completed export holds that file.
C16_MetadataIdentical ==
    BuiltSeries =>
        /\ \A f \in SeriesFields \ {"data"} : new_2pseries[f] = orig_2pseries[f]
        /\ DOMAIN nwbfile.acquisition = DOMAIN InputFile(orig_2pseries).acquisition
        /\ nwbfile.acquisition[new_2pseries["name"]] = new_2pseries
        /\ nwbfile.acquisition[OtherSeries["name"]] = OtherSeries
        /\ nwbfile.rest = InputFile(orig_2pseries).rest
        /\ output_file = "complete" => exported_nwb = nwbfile

\* ------------------------------------------------------------------ C20
ExportAttempted == exported \/ ErrorAt({"export"})

\* C20 (as amended): the stats string of a run whose export returned holds the
\* export time and then the file size, or "N/A" when the output file cannot be
\* found afterwards, in which case the run goes on all the same; a run that
\* ends holds the total time after them and has written its stats file; a run
\* whose export raised ends there, with no stats string and no stats file.
C20_SizeFallback ==
    /\ (exported /\ wr_pc \in {"after_loop", "done"}) =>
          /\ Len(stats.text) >= 4
          /\ stats.text[3] = "t_write"
          /\ stats.text[4] = (IF output_file = "complete" THEN "file_size" ELSE "N/A")
    /\ (exported /\ output_file # "complete") => wr_pc \in {"stat", "after_loop", "done"}
    /\ wr_pc = "done" =>
          /\ exported
          /\ Len(stats.text) = 5
          /\ stats.text[5] = "total_t"
          /\ stats_file
    /\ ErrorAt({"export"}) =>
          /\ ~exported
          /\ stats = EmptyStats
          /\ ~stats_file

\* a run has ended with "N/A" for the size of a file that was not there
C20_Witness ==
    /\ wr_pc = "done"
    /\ output_file = "absent"
    /\ stats_file
    /\ stats.text[4] = "N/A"

\* C20 as stated: whenever the export step did not leave an output file, the
\* run is not aborted, and at its end the stats line reports "N/A".
C20_FailureNeverAborts ==
    (ExportAttempted /\ output_file # "complete") =>
        /\ wr_pc # "error"
        /\ wr_pc = "done" => (stats_file /\ stats.text[4] = "N/A")

\* ---- C17
\* every file of the directory is what nwb_to_tiff writes for a frame of the movie
ExportedDir ==
    /\ Len(movie.idx) > 0
    /\ tiff_dir = {[name |-> FrameFileName(movie.idx[k]),
                    frame |-> ToTiffFrame(Frame(movie.idx[k], movie.dims))] :
                       k \in 1..Len(movie.idx)}

\* the stored array holds, at every position, the source frame of that
\* position, in the orientation and with the dimensions of the source
StoredEqualsSource ==
    /\ Len(dataset) = Len(movie.idx)
    /\ \A k \in 1..Len(dataset) : dataset[k] = Slot(Frame(movie.idx[k], movie.dims))

\* C17: when a movie exported to frame files by nwb_to_tiff has been written
\* back by a frame-file writer, the stored slice at every index equals the
\* source frame of that index, in order, whatever the writer and its buffering.
C17_RoundTripRestoresOrder ==
    (fp_pc = "done" /\ ExportedDir) => StoredEqualsSource

\* a written-back movie of three frames, buffered two at a time
C17_Witness ==
    /\ fp_pc = "done"
    /\ ExportedDir
    /\ fp_writer = "tiff"
    /\ fp_buffer_frames = 2
    /\ Len(movie.idx) = MaxFpFrames
    /\ StoredEqualsSource

\* ---- C18
\* some file of the list has dimensions other than the first file's
SomeFrameDiffers ==
    \E k \in 1..Len(fp_tiff_files) :
        fp_tiff_files[k].frame.shape # fp_tiff_files[1].frame.shape

\* C18: once the files are listed, a directory in which some frame's
\* dimensions differ from the first frame's never gets a stats file, and the
\* run ends in a shape error.
C18_AnyMismatchFails ==
    SomeFrameDiffers =>
        /\ ~fp_stats_file
        /\ fp_pc # "done"
        /\ fp_pc = "error" => fp_err.kind \in {"ValueError", "TypeError"}

\* ------------------------------------------------------------------ C21
\* the run has left the loop over the files, by its end or by an exception
ScanOver == ck_pc \in {"summarised", "error"}
InSeq(x, sq) == \E k \in 1..Len(sq) : sq[k] = x
\* the names of the lines of one kind, in printed order
NamesPrinted(kind) ==
    LET lines == SelectSeq(ck_out, LAMBDA l : l.kind = kind)
    IN [k \in 1..Len(lines) |-> lines[k].name]
FailedNames == [k \in 1..Len(failed_files) |-> failed_files[k][1]]

\* C21: when the scan is over, the files opened are the sorted list of the
\* directory's .nwb files, each once, whatever failed before; every deleted
\* file failed to open with a text holding one of the fingerprints; a file
\* that opened is still in the directory; every failed file has its FAILED
\* line; and the files listed as failed but not deleted are the failed files
\* without the deleted ones.
C21_EveryFileCheckedOnce ==
    ScanOver =>
        /\ opened = nwb_files
        /\ \A a, b \in 1..Len(opened) : a < b => StrLess(opened[a], opened[b])
        /\ \A k \in 1..Len(deleted_files) :
              \E m \in 1..Len(failed_files) :
                  /\ failed_files[m][1] = deleted_files[k]
                  /\ (Contains(failed_files[m][2], E_missing_version)
                        \/ Contains(failed_files[m][2], E_bad_header))
        /\ \A k \in 1..Len(opened) :
              ~InSeq(opened[k], FailedNames) =>
                  \E f \in directory : f.name = opened[k] /\ f.opens = OpensOk
        /\ NamesPrinted("FAILED") = FailedNames
        /\ NamesPrinted("failed file") =
              SelectSeq(FailedNames, LAMBDA n : ~InSeq(n, deleted_files))

\* a finished scan that deleted a file, kept a failed one and opened a third
C21_Witness ==
    /\ ck_pc = "summarised"
    /\ Len(nwb_files) = MaxCkFiles
    /\ Len(deleted_files) = 1
    /\ Len(failed_files) = 2
    /\ Len(NamesPrinted("failed file")) = 1

\* ------------------------------------------------------------------ C22
\* the run r made one read per draw, each over the W frames from the offset
\* drawn for it, inside [0, N), over the full spatial extent, and returned one
\* time per sample
WindowRun(r, W) ==
    /\ r.frame_indices # <<>>
    /\ Len(r.reads) = Len(r.frame_indices)
    /\ \A k \in 1..Len(r.reads) :
          /\ r.reads[k].unit = k - 1
          /\ r.reads[k].sel[1] = r.frame_indices[k]
          /\ r.reads[k].sel[2] = r.frame_indices[k] + W
          /\ r.reads[k].sel[2] <= r.n_frames
          /\ r.reads[k].sel[3] = 0 /\ r.reads[k].sel[4] = data_shape[2]
          /\ r.reads[k].sel[5] = 0 /\ r.reads[k].sel[6] = data_shape[3]
    /\ "read_times" \in r.keys

\* the batch size that steps the reads of a use case other than o3
StepOf(k) == IF USE_CASES[k].call.fn = "seq" THEN USE_CASES[k].call.S ELSE O4_BATCH_SIZE

TiffFileWritten == writer = "tiff" /\ output_file = "complete"
\* the config numbers for which the reader, given the same label and
\* directory, resolves the file the writer has written
ReaderNumbers ==
    {n \in 0..(MaxLines + 1) :
        ReadInputName(S_ophys1, n) = WriteTiffOutputName(S_ophys1, config_number)}
\* the first field of the line the writer took its parameters from
ConfignoOfLine == IntOf(Split(Strip(config_file[lineno + 1]))[1])

====
